---- MODULE Spec2Model ----
(***************************************************************************)
(* Model of the collection pipeline of reddit-scraper (cmd/scraper/main.go, *)
(* internal/storage/writer.go, internal/collector/*, internal/domain).      *)
(*                                                                          *)
(* main starts the writer goroutine (the Sink) and numWorkers worker        *)
(* goroutines, enqueues the targets on jobQueue, closes it, installs the    *)
(* signal handler, waits for the workers, closes resultQueue and waits for  *)
(* the writer.  Every channel operation, every goroutine step that can      *)
(* block and every environment outcome (adapter result, store open result,  *)
(* signal) is one action.  Text is a sequence of one-character strings.     *)
(***************************************************************************)
EXTENDS Integers, Sequences, FiniteSets, TLC

VARIABLES
    mode,          \* COLLECTOR_MODE of the process environment
    targets,       \* result of ingest.LoadTargets: sequence of domain.Target
    keywords,      \* result of ingest.LoadKeywords: sequence of keywords
    mainpc,        \* position of main
    enqueued,      \* number of targets main has sent on jobQueue
    jobQueue,      \* buffered channel of targets (held as indices into targets)
    jobClosed,     \* close(jobQueue) has happened
    resultQueue,   \* buffered channel of domain.Post
    resultClosed,  \* close(resultQueue) has happened
    ctxDone,       \* ctx.Done() is closed (cancel() was called)
    sigpc,         \* position of the signal-handler goroutine
    sigChan,       \* number of signals held in the buffer of sigChan
    wpc,           \* position of every worker goroutine
    wt,            \* the target (index) a worker holds in t, 0 when none
    wposts,        \* the posts of the batch a worker has still to handle
    sinkpc,        \* position of WriterService.Start
    store,         \* lines of data/current.json
    storeErr,      \* os.OpenFile in the writer returned an error
    panicked,      \* a goroutine panicked (send on a closed channel)
    \* history of the run, read by the properties only
    dequeued,          \* targets (indices) received from jobQueue so far
    dequeuedAtCancel,  \* value of dequeued when cancel() was called
    pushedAtCancel,    \* number of sends on resultQueue made when cancel() was called
    fetchCalls,        \* per target: the limits of the FetchNewPosts calls made
    returned,          \* per target: outcome of its FetchNewPosts call
    pushLog,           \* every send on resultQueue, in order
    writerOpens,       \* number of os.OpenFile calls WriterService.Start made
    readerOpened,      \* the dashboard's loadData has called os.Open on the file
    \* the rate limiter of the adapter instance and the calls waiting on it
    now,           \* the clock, in seconds
    limTokens,     \* rate.Limiter.tokens, in units of 1/Interval of a token
    limLast,       \* rate.Limiter.last: the time tokens was last updated
    limpc,         \* per worker: position of its FetchNewPosts call in the adapter
    limAt,         \* per worker: the time its reservation may act (timeToAct)
    admitted,      \* the reservations the limiter has made, in order
    \* the functions main calls before the pipeline, applied to their inputs
    startFn,       \* the function applied: LoadTargets, LoadKeywords, NewCollector
    startpc,       \* its position: "idle", "loop", "call", "returned", "panic"
    csvRows,       \* the rows of the input file, as csv.Reader meets them
    csvNext,       \* the row the next r.Read() reads
    csvFields,     \* csv.Reader.FieldsPerRecord
    csvLine,       \* the local variable line of LoadTargets and LoadKeywords
    loaded,        \* the slice built so far (targets, kws)
    userAgent,     \* REDDIT_USER_AGENT of the process environment
    collector,     \* what NewCollector returned: the adapter and the error
    \* the dashboard's handler of "/" and the loadData it calls
    storeExists,   \* data/current.json exists
    loadpc,        \* position of the handler: "idle", "scan", "loaded", "served"
    scanNext,      \* the line the next scanner.Scan() reads
    loadedPosts,   \* the slice posts of loadData, then of the handler
    written        \* the posts whose lines the writer has appended, in order

vars == << mode, targets, keywords, mainpc, enqueued, jobQueue, jobClosed,
           resultQueue, resultClosed, ctxDone, sigpc, sigChan, wpc, wt, wposts,
           sinkpc, store, storeErr, panicked,
           dequeued, dequeuedAtCancel, pushedAtCancel, fetchCalls, returned,
           pushLog, writerOpens, readerOpened,
           now, limTokens, limLast, limpc, limAt, admitted,
           startFn, startpc, csvRows, csvNext, csvFields, csvLine, loaded,
           userAgent, collector,
           storeExists, loadpc, scanNext, loadedPosts, written >>

----------------------------------------------------------------------------
(* Bounds of the model *)

\* largest number of targets LoadTargets returns
MaxTargets == 2

\* the clock stops at MaxTime seconds
MaxTime == 4

\* largest number of FetchNewPosts calls made on the adapter instance
MaxRequests == 3

\* largest number of posts one adapter call returns (at most the limit)
MaxPosts == 2

\* capacity of resultQueue in the model; main.go makes it 100, scaled down
\* so that a full queue is reached with MaxTargets * MaxPosts posts
ResultCap == 2

(* Program constants *)

\* the limit main passes to FetchNewPosts
BatchLimit == 25

\* numWorkers of main
DefaultWorkers == 4

\* numWorkers of main when COLLECTOR_MODE is "public"
PublicWorkers == 2

----------------------------------------------------------------------------
(* Text: strings.ToLower and strings.Contains *)

ToLowerChar(c) ==
    CASE c = "A" -> "a"
      [] c = "B" -> "b"
      [] c = "C" -> "c"
      [] c = "X" -> "x"
      [] OTHER -> c

ToLower(s) == [i \in 1..Len(s) |-> ToLowerChar(s[i])]

\* a containment test that the empty string never passes
ContainsNonEmpty(s, substr) ==
    /\ Len(substr) > 0
    /\ \E off \in 0..(Len(s) - Len(substr)) :
          \A i \in 1..Len(substr) : s[off + i] = substr[i]

\* strings.Contains(s, substr): substr occurs in s at some offset; the empty
\* string occurs in every string
Contains(s, substr) ==
    \E off \in 0..(Len(s) - Len(substr)) :
        \A i \in 1..Len(substr) : s[off + i] = substr[i]

Min(a, b) == IF a <= b THEN a ELSE b

----------------------------------------------------------------------------
(* Data: domain.Target, domain.Post and the inputs of a run *)

Target(sub, min) == [Subreddit |-> sub, MinScore |-> min]

\* domain.Post as the adapters build it: KeywordsHit is left nil
Post(id, title, score) ==
    [ID |-> id, Title |-> title, Subreddit |-> "r/golang", Author |-> "u1",
     URL |-> "http://u", Score |-> score, CommentCount |-> 3,
     CreatedUTC |-> 1700, KeywordsHit |-> << >>]

TitleHit == <<"A", "b", "c">>
TitleMiss == <<"x">>
TitleMock == <<"x", "A", "B">>

\* the posts of the remote listings: low score with a keyword in the title,
\* high score without, low score without
PostLowHit == Post("p1", TitleHit, 5)
PostHighMiss == Post("p2", TitleMiss, 50)
PostLowMiss == Post("p3", TitleMiss, 5)

\* what the remote side lists as the newest posts of a source
Listing(sub) ==
    IF sub = "golang" THEN << PostLowHit, PostLowMiss, PostHighMiss >>
    ELSE << PostHighMiss, PostLowMiss, PostLowHit >>

\* the scores rand.Intn draws in the mock
MockScores == {5, 50}

\* the i-th post the mock fabricates
MockPost(sub, i, score) ==
    Post(IF sub = "golang"
         THEN (IF i = 1 THEN "mock_golang_0"
               ELSE IF i = 2 THEN "mock_golang_1" ELSE "mock_golang_n")
         ELSE (IF i = 1 THEN "mock_netsec_0"
               ELSE IF i = 2 THEN "mock_netsec_1" ELSE "mock_netsec_n"),
         TitleMock, score)

\* the i-th row of input/subreddits.csv (the third names the first source again)
TargetAt(i) ==
    IF i % 2 = 1 THEN Target("golang", 10) ELSE Target("netsec", 0)

TargetList(m) == [i \in 1..m |-> TargetAt(i)]

\* keyword lists LoadKeywords can return (lower-cased, trimmed): none, a list
\* with a repeated entry, a list holding the empty keyword
KeywordsDup == << <<"a", "b">>, <<"c">>, <<"a", "b">> >>

KeywordLists == { << >>, KeywordsDup, << << >> >> }

\* the inputs of a run: every keyword list with at most one target, the
\* list with the repeated entry with more targets
InputCases ==
    { c \in [targets : { TargetList(m) : m \in 0..MaxTargets },
             keywords : KeywordLists] :
        Len(c.targets) <= 1 \/ c.keywords = KeywordsDup }

Modes == {"api", "public", "mock", "bogus"}

\* the store as an earlier run left it
PriorStore == << [id |-> "p2", title |-> <<"o">>, subreddit |-> "r/golang",
                  author |-> "u0", url |-> "http://o", score |-> 7,
                  comment_count |-> 0, created_utc |-> 1600] >>

----------------------------------------------------------------------------
(* main.go: number of workers *)

\* numWorkers without the public case
numWorkersAlwaysDefault(m) == DefaultWorkers

numWorkers(m) == IF m = "public" THEN PublicWorkers ELSE DefaultWorkers

Workers == DOMAIN wpc

----------------------------------------------------------------------------
(* main.go, worker: tagging and the inclusion predicate *)

\* the keyword test without strings.ToLower
KeywordMatchesCaseSensitive(title, k) == Contains(title, k)

\* strings.Contains(strings.ToLower(p.Title), k)
KeywordMatches(title, k) == Contains(ToLower(title), k)

\* for _, k := range keywords { if ... { p.KeywordsHit = append(p.KeywordsHit, k) } }
\* hits is p.KeywordsHit as the loop has grown it before its i-th round; the
\* loop reads p.Title and never changes it
RECURSIVE TagLoop(_, _, _, _)
TagLoop(hits, title, kws, i) ==
    IF i > Len(kws) THEN hits
    ELSE TagLoop(IF KeywordMatches(title, kws[i])
                 THEN Append(hits, kws[i])
                 ELSE hits,
                 title, kws, i + 1)

Tag(p, kws) == [p EXCEPT !.KeywordsHit = TagLoop(@, p.Title, kws, 1)]

\* the inclusion predicate with && in place of ||
IncludeBoth(p, t) == p.Score >= t.MinScore /\ Len(p.KeywordsHit) > 0

\* if p.Score >= t.MinScore || len(p.KeywordsHit) > 0
Include(p, t) == p.Score >= t.MinScore \/ Len(p.KeywordsHit) > 0

----------------------------------------------------------------------------
(* storage/writer.go: json.Encoder.Encode of a domain.Post, one line; the   *)
(* keywords_hit key is omitted when the list is empty (omitempty)           *)

\* Encode with the keywords_hit key never written
EncodeNoKeywords(p) ==
    [id |-> p.ID, title |-> p.Title, subreddit |-> p.Subreddit,
     author |-> p.Author, url |-> p.URL, score |-> p.Score,
     comment_count |-> p.CommentCount, created_utc |-> p.CreatedUTC]

Encode(p) ==
    LET base == [id |-> p.ID, title |-> p.Title, subreddit |-> p.Subreddit,
                 author |-> p.Author, url |-> p.URL, score |-> p.Score,
                 comment_count |-> p.CommentCount, created_utc |-> p.CreatedUTC]
    IN  IF Len(p.KeywordsHit) = 0 THEN base
        ELSE [keywords_hit |-> p.KeywordsHit] @@ base

----------------------------------------------------------------------------
(* collector: the rate limiter of an adapter instance, golang.org/x/time/rate *)

\* rate.Every(1*time.Second) in NewAPIClient, in seconds
IntervalApi == 1

\* rate.Every(2*time.Second) in NewPublicClient, in seconds
IntervalPublic == 2

Interval(m) == IF m = "public" THEN IntervalPublic ELSE IntervalApi

\* a limiter made with burst 2
LimiterBurstDouble == 1 + 1

\* the second argument of rate.NewLimiter
LimiterBurst == 1

\* a full bucket, counted in units of 1/Interval(m) of a token
FullBucket(m) == LimiterBurst * Interval(m)

----------------------------------------------------------------------------
\* the pipeline before main has started a goroutine, the inputs and the
\* content of the store given
RunStart ==
    /\ mainpc = "init"
    /\ enqueued = 0
    /\ jobQueue = << >>
    /\ jobClosed = FALSE
    /\ resultQueue = << >>
    /\ resultClosed = FALSE
    /\ ctxDone = FALSE
    /\ sigpc = "idle"
    /\ sigChan = 0
    /\ wpc = [w \in 1..numWorkers(mode) |-> "idle"]
    /\ wt = [w \in 1..numWorkers(mode) |-> 0]
    /\ wposts = [w \in 1..numWorkers(mode) |-> << >>]
    /\ sinkpc = "idle"
    /\ storeErr = FALSE
    /\ panicked = FALSE
    /\ dequeued = {}
    /\ dequeuedAtCancel = {}
    /\ pushedAtCancel = 0
    /\ fetchCalls = [i \in 1..Len(targets) |-> << >>]
    /\ returned = [i \in 1..Len(targets) |-> [status |-> "none", posts |-> << >>]]
    /\ pushLog = << >>
    /\ writerOpens = 0
    /\ readerOpened = FALSE
    /\ now = 0
    /\ limTokens = FullBucket(mode)
    /\ limLast = 0
    /\ limpc = [w \in 1..numWorkers(mode) |-> "idle"]
    /\ limAt = [w \in 1..numWorkers(mode) |-> 0]
    /\ admitted = << >>

\* the pipeline before main has started a goroutine, the inputs given
RunInit ==
    /\ RunStart
    /\ store = PriorStore

\* the pipeline before main has started a goroutine
PipelineInit ==
    /\ \E c \in InputCases : targets = c.targets /\ keywords = c.keywords
    /\ RunInit

startVars ==
    << startFn, startpc, csvRows, csvNext, csvFields, csvLine, loaded,
       userAgent, collector >>

\* no adapter and no error
NoCollector == [adapter |-> "nil", err |-> "nil"]

\* the run of the pipeline: the inputs are loaded and the adapter chosen,
\* targets, keywords and mode hold the outcome
\* none of the functions of the start is being applied
StartIdle ==
    /\ startFn = "none"
    /\ startpc = "idle"
    /\ csvRows = << >>
    /\ csvNext = 1
    /\ csvFields = 0
    /\ csvLine = 0
    /\ loaded = << >>
    /\ userAgent = ""
    /\ collector = NoCollector

reportVars == << storeExists, loadpc, scanNext, loadedPosts, written >>

\* the store exists and no request is being served
ReportIdle ==
    /\ storeExists = TRUE
    /\ loadpc = "idle"
    /\ scanNext = 1
    /\ loadedPosts = << >>
    /\ written = << >>

Init ==
    /\ mode \in Modes
    /\ PipelineInit
    /\ StartIdle
    /\ ReportIdle

----------------------------------------------------------------------------
(* main *)

mainVars == << mainpc, enqueued >>
inputVars == << mode, targets, keywords >>
jobVars == << jobQueue, jobClosed >>
workerVars == << wpc, wt, wposts >>
sinkVars == << sinkpc, store, storeErr >>
histVars ==
    << dequeued, dequeuedAtCancel, pushedAtCancel, fetchCalls, returned,
       pushLog >>
openVars == << writerOpens, readerOpened >>
limVars == << now, limTokens, limLast, limpc, limAt, admitted >>

\* the collector initialised after the channels, the writer and the workers
\* were set up: the failure exit comes when they are running
MainCollectorFailsLate ==
    /\ ~panicked
    /\ mainpc = "enqueue"
    /\ mode # "mock"
    /\ mainpc' = "exited"
    /\ UNCHANGED << sigChan, startVars, reportVars, limVars, openVars, enqueued, inputVars, jobVars,
                    resultQueue, resultClosed, ctxDone, sigpc, workerVars,
                    sinkVars, panicked, histVars >>

\* collector.NewCollector returns an error: an unknown mode always, "public"
\* with an empty REDDIT_USER_AGENT, "api" when reddit.NewClient fails; the
\* mock never.  main logs and calls os.Exit(1)
MainCollectorFails ==
    /\ ~panicked
    /\ mainpc = "init"
    /\ mode # "mock"
    /\ mainpc' = "exited"
    /\ UNCHANGED << sigChan, startVars, reportVars, limVars, openVars, enqueued, inputVars, jobVars, resultQueue, resultClosed,
                    ctxDone, sigpc, workerVars, sinkVars, panicked, histVars >>

\* main going on only when targets were loaded
MainStartNeedsTargets ==
    /\ ~panicked
    /\ mainpc = "init"
    /\ mode \in {"api", "public", "mock"}
    /\ Len(targets) > 0
    /\ mainpc' = "enqueue"
    /\ sinkpc' = "start"
    /\ wpc' = [w \in Workers |-> "range"]
    /\ UNCHANGED << sigChan, startVars, reportVars, limVars, openVars, enqueued, inputVars, jobVars,
                    resultQueue, resultClosed, ctxDone, sigpc, wt, wposts, store,
                    storeErr, panicked, histVars >>

\* NewCollector succeeds; main makes the channels, starts the writer
\* goroutine and the numWorkers worker goroutines
MainStart ==
    /\ ~panicked
    /\ mainpc = "init"
    /\ mode \in {"api", "public", "mock"}
    /\ mainpc' = "enqueue"
    /\ sinkpc' = "start"
    /\ wpc' = [w \in Workers |-> "range"]
    /\ UNCHANGED << sigChan, startVars, reportVars, limVars, openVars, enqueued, inputVars, jobVars, resultQueue, resultClosed,
                    ctxDone, sigpc, wt, wposts, store, storeErr, panicked,
                    histVars >>

\* the work queue made one slot too small
JobQueueCapShort == Len(targets) - 1

\* jobQueue := make(chan domain.Target, len(targets))
JobQueueCap == Len(targets)

\* jobQueue <- t, for the next target; the send waits while the channel is full
MainEnqueue ==
    /\ ~panicked
    /\ mainpc = "enqueue"
    /\ enqueued < Len(targets)
    /\ Len(jobQueue) < JobQueueCap
    /\ jobQueue' = Append(jobQueue, enqueued + 1)
    /\ enqueued' = enqueued + 1
    /\ UNCHANGED << sigChan, startVars, reportVars, limVars, openVars, mainpc, inputVars, jobClosed, resultQueue, resultClosed,
                    ctxDone, sigpc, workerVars, sinkVars, panicked, histVars >>

\* close(jobQueue), after the loop over targets
MainCloseJobs ==
    /\ ~panicked
    /\ mainpc = "enqueue"
    /\ enqueued = Len(targets)
    /\ jobClosed' = TRUE
    /\ mainpc' = "notify"
    /\ UNCHANGED << sigChan, startVars, reportVars, limVars, openVars, enqueued, inputVars, jobQueue, resultQueue, resultClosed,
                    ctxDone, sigpc, workerVars, sinkVars, panicked, histVars >>

\* signal.Notify(sigChan, ...) and go func() { <-sigChan; cancel() }()
MainNotify ==
    /\ ~panicked
    /\ mainpc = "notify"
    /\ sigpc' = "listening"
    /\ mainpc' = "waitWorkers"
    /\ UNCHANGED << sigChan, startVars, reportVars, limVars, openVars, enqueued, inputVars, jobVars, resultQueue, resultClosed,
                    ctxDone, workerVars, sinkVars, panicked, histVars >>

\* main not waiting for the workers before it closes resultQueue
WorkerWgZeroNoWait == TRUE

\* workerWg.Wait() returns: every worker has run its deferred workerWg.Done()
WorkerWgZero == \A w \in Workers : wpc[w] = "done"

\* workerWg.Wait(); close(resultQueue)
MainCloseResults ==
    /\ ~panicked
    /\ mainpc = "waitWorkers"
    /\ WorkerWgZero
    /\ resultClosed' = TRUE
    /\ mainpc' = "waitWriter"
    /\ UNCHANGED << sigChan, startVars, reportVars, limVars, openVars, enqueued, inputVars, jobVars, resultQueue, ctxDone, sigpc,
                    workerVars, sinkVars, panicked, histVars >>

\* writerWg.Wait() returns: the writer has run its deferred wg.Done()
WriterWgZero == sinkpc = "done"

\* writerWg.Wait(); logger.Info("Scrape complete. Data saved."); select {}
MainComplete ==
    /\ ~panicked
    /\ mainpc = "waitWriter"
    /\ WriterWgZero
    /\ mainpc' = "complete"
    /\ UNCHANGED << sigChan, startVars, reportVars, limVars, openVars, enqueued, inputVars, jobVars, resultQueue, resultClosed,
                    ctxDone, sigpc, workerVars, sinkVars, panicked, histVars >>

\* the handler goroutine receives SIGINT/SIGTERM from sigChan and calls cancel()
SignalCancel ==
    /\ ~panicked
    /\ sigpc = "listening"
    /\ sigpc' = "done"
    /\ ctxDone' = TRUE
    /\ dequeuedAtCancel' = dequeued
    /\ pushedAtCancel' = Len(pushLog)
    /\ UNCHANGED << sigChan, startVars, reportVars, limVars, openVars, mainVars, inputVars, jobVars, resultQueue, resultClosed,
                    workerVars, sinkVars, panicked, dequeued, fetchCalls,
                    returned, pushLog >>

----------------------------------------------------------------------------
(* worker goroutine *)

\* for t := range jobQueue: a target is received
WorkerDequeue(w) ==
    /\ ~panicked
    /\ wpc[w] = "range"
    /\ jobQueue # << >>
    /\ wt' = [wt EXCEPT ![w] = Head(jobQueue)]
    /\ jobQueue' = Tail(jobQueue)
    /\ dequeued' = dequeued \cup {Head(jobQueue)}
    /\ wpc' = [wpc EXCEPT ![w] = "select"]
    /\ UNCHANGED << sigChan, startVars, reportVars, limVars, openVars, mainVars, inputVars, jobClosed, resultQueue, resultClosed,
                    ctxDone, sigpc, wposts, sinkVars, panicked,
                    dequeuedAtCancel, pushedAtCancel, fetchCalls, returned, pushLog >>

\* the receive made non-blocking: the worker returns when it finds the
\* queue empty, closed or not
WorkerQueueExhaustedEarly(w) ==
    /\ ~panicked
    /\ wpc[w] = "range"
    /\ jobQueue = << >>
    /\ wpc' = [wpc EXCEPT ![w] = "done"]
    /\ UNCHANGED << sigChan, startVars, reportVars, limVars, openVars, mainVars, inputVars, jobVars,
                    resultQueue, resultClosed, ctxDone, sigpc, wt, wposts,
                    sinkVars, panicked, histVars >>

\* for t := range jobQueue: the channel is closed and empty, the loop ends
\* and the goroutine returns (defer workerWg.Done())
WorkerQueueExhausted(w) ==
    /\ ~panicked
    /\ wpc[w] = "range"
    /\ jobQueue = << >>
    /\ jobClosed
    /\ wpc' = [wpc EXCEPT ![w] = "done"]
    /\ UNCHANGED << sigChan, startVars, reportVars, limVars, openVars, mainVars, inputVars, jobVars, resultQueue, resultClosed,
                    ctxDone, sigpc, wt, wposts, sinkVars, panicked, histVars >>

\* the worker's mutants of the cancellation check: the cases swapped, and
\* no check at all
CtxIsDoneSwapped == ~ctxDone
CtxIsDoneNever == FALSE

\* case <-ctx.Done() of the worker's select is ready
CtxIsDone == ctxDone

\* the cancellation case with continue in place of return: the worker goes
\* on receiving targets
WorkerCancelledContinue(w) ==
    /\ ~panicked
    /\ wpc[w] = "select"
    /\ CtxIsDone
    /\ wpc' = [wpc EXCEPT ![w] = "range"]
    /\ wt' = [wt EXCEPT ![w] = 0]
    /\ UNCHANGED << sigChan, startVars, reportVars, limVars, openVars, mainVars, inputVars, jobVars, resultQueue,
                    resultClosed, ctxDone, sigpc, wposts, sinkVars, panicked,
                    histVars >>

\* select { case <-ctx.Done(): return
WorkerCancelled(w) ==
    /\ ~panicked
    /\ wpc[w] = "select"
    /\ CtxIsDone
    /\ wpc' = [wpc EXCEPT ![w] = "done"]
    /\ wt' = [wt EXCEPT ![w] = 0]
    /\ UNCHANGED << sigChan, startVars, reportVars, limVars, openVars, mainVars, inputVars, jobVars, resultQueue, resultClosed,
                    ctxDone, sigpc, wposts, sinkVars, panicked, histVars >>

\* select { ... default: client.FetchNewPosts(ctx, t.Subreddit, 25) is called
WorkerFetchCall(w) ==
    /\ ~panicked
    /\ wpc[w] = "select"
    /\ ~CtxIsDone
    /\ fetchCalls' = [fetchCalls EXCEPT ![wt[w]] = Append(@, BatchLimit)]
    /\ wpc' = [wpc EXCEPT ![w] = "fetch"]
    /\ UNCHANGED << sigChan, startVars, reportVars, limVars, openVars, mainVars, inputVars, jobVars, resultQueue, resultClosed,
                    ctxDone, sigpc, wt, wposts, sinkVars, panicked,
                    dequeued, dequeuedAtCancel, pushedAtCancel, returned, pushLog >>

\* where the worker goes once a batch is handled: the next post, or back to
\* the range statement
AfterPosts(rest) == IF rest = << >> THEN "range" ELSE "posts"

\* the batches FetchNewPosts can return: the mock builds exactly limit
\* posts with random scores; the api and public adapters return the first
\* posts of the source's listing, at most limit of them
BatchesOf(m, sub, limit) ==
    LET n == Min(limit, MaxPosts)
    IN  IF m = "mock"
        THEN { [i \in 1..n |-> MockPost(sub, i, f[i])] : f \in [1..n -> MockScores] }
        ELSE { SubSeq(Listing(sub), 1, k) : k \in 0..Min(n, Len(Listing(sub))) }

\* FetchNewPosts returns posts, nil
FetchReturnsPosts(w) ==
    /\ ~panicked
    /\ wpc[w] = "fetch"
    /\ \E batch \in BatchesOf(mode, targets[wt[w]].Subreddit, BatchLimit) :
        /\ wposts' = [wposts EXCEPT ![w] = batch]
        /\ returned' = [returned EXCEPT ![wt[w]] = [status |-> "ok", posts |-> batch]]
        /\ wpc' = [wpc EXCEPT ![w] = AfterPosts(batch)]
        /\ wt' = [wt EXCEPT ![w] = IF batch = << >> THEN 0 ELSE @]
    /\ UNCHANGED << sigChan, startVars, reportVars, limVars, openVars, mainVars, inputVars, jobVars, resultQueue, resultClosed,
                    ctxDone, sigpc, sinkVars, panicked,
                    dequeued, dequeuedAtCancel, pushedAtCancel, fetchCalls, pushLog >>

\* the error branch with return in place of continue
OnFetchErrorReturn == "done"

\* the worker's branch on err != nil: log and continue with the next target
OnFetchError == "range"

\* the error branch retrying the fetch of the same target
FetchReturnsErrorRetry(w) ==
    /\ ~panicked
    /\ wpc[w] = "fetch"
    /\ mode # "mock"
    /\ returned' = [returned EXCEPT ![wt[w]] = [status |-> "err", posts |-> << >>]]
    /\ wpc' = [wpc EXCEPT ![w] = "select"]
    /\ UNCHANGED << sigChan, startVars, reportVars, limVars, openVars, mainVars, inputVars, jobVars, resultQueue,
                    resultClosed, ctxDone, sigpc, wt, wposts, sinkVars, panicked,
                    dequeued, dequeuedAtCancel, pushedAtCancel, fetchCalls, pushLog >>

\* FetchNewPosts returns nil, err (limiter.Wait interrupted, network or
\* status error); the mock never fails
FetchReturnsError(w) ==
    /\ ~panicked
    /\ wpc[w] = "fetch"
    /\ mode # "mock"
    /\ returned' = [returned EXCEPT ![wt[w]] = [status |-> "err", posts |-> << >>]]
    /\ wpc' = [wpc EXCEPT ![w] = OnFetchError]
    /\ wt' = [wt EXCEPT ![w] = 0]
    /\ UNCHANGED << sigChan, startVars, reportVars, limVars, openVars, mainVars, inputVars, jobVars, resultQueue, resultClosed,
                    ctxDone, sigpc, wposts, sinkVars, panicked,
                    dequeued, dequeuedAtCancel, pushedAtCancel, fetchCalls, pushLog >>

\* position in its batch of the post the worker handles next
PostIndex(w) == Len(returned[wt[w]].posts) - Len(wposts[w]) + 1

\* a p whose KeywordsHit is carried over from the record sent before it
\* (one list shared by the records in place of the copy's own)
TaggedOnSharedList(w) ==
    Tag([Head(wposts[w]) EXCEPT !.KeywordsHit =
            IF pushLog = << >> THEN << >>
            ELSE pushLog[Len(pushLog)].post.KeywordsHit],
        keywords)

\* the loop variable p, after the keyword loop
Tagged(w) == Tag(Head(wposts[w]), keywords)

\* the post is tagged and fails the inclusion predicate: nothing is sent
WorkerDiscard(w) ==
    /\ ~panicked
    /\ wpc[w] = "posts"
    /\ ~Include(Tagged(w), targets[wt[w]])
    /\ wposts' = [wposts EXCEPT ![w] = Tail(@)]
    /\ wpc' = [wpc EXCEPT ![w] = AfterPosts(Tail(wposts[w]))]
    /\ wt' = [wt EXCEPT ![w] = IF Tail(wposts[w]) = << >> THEN 0 ELSE @]
    /\ UNCHANGED << sigChan, startVars, reportVars, limVars, openVars, mainVars, inputVars, jobVars, resultQueue, resultClosed,
                    ctxDone, sigpc, sinkVars, panicked, histVars >>

\* the send made non-blocking (select with a default case): on a full
\* channel the record is skipped
WorkerPushNoWait(w) ==
    /\ ~panicked
    /\ wpc[w] = "posts"
    /\ Include(Tagged(w), targets[wt[w]])
    /\ ~resultClosed
    /\ IF Len(resultQueue) < ResultCap
       THEN /\ resultQueue' = Append(resultQueue, Tagged(w))
            /\ pushLog' = Append(pushLog,
                                 [t |-> wt[w], j |-> PostIndex(w), post |-> Tagged(w)])
       ELSE UNCHANGED << resultQueue, pushLog >>
    /\ wposts' = [wposts EXCEPT ![w] = Tail(@)]
    /\ wpc' = [wpc EXCEPT ![w] = AfterPosts(Tail(wposts[w]))]
    /\ wt' = [wt EXCEPT ![w] = IF Tail(wposts[w]) = << >> THEN 0 ELSE @]
    /\ UNCHANGED << sigChan, startVars, reportVars, limVars, openVars, mainVars, inputVars, jobVars, resultClosed,
                    ctxDone, sigpc, sinkVars, panicked, dequeued,
                    dequeuedAtCancel, pushedAtCancel, fetchCalls, returned >>

\* the send guarded by a cancellation check: with cancellation asserted the
\* worker gives up the rest of its batch and returns
WorkerPushUnlessCancelled(w) ==
    /\ ~panicked
    /\ wpc[w] = "posts"
    /\ Include(Tagged(w), targets[wt[w]])
    /\ IF ctxDone
       THEN /\ wposts' = [wposts EXCEPT ![w] = << >>]
            /\ wpc' = [wpc EXCEPT ![w] = "done"]
            /\ wt' = [wt EXCEPT ![w] = 0]
            /\ UNCHANGED << resultQueue, pushLog >>
       ELSE /\ ~resultClosed
            /\ Len(resultQueue) < ResultCap
            /\ resultQueue' = Append(resultQueue, Tagged(w))
            /\ pushLog' = Append(pushLog,
                                 [t |-> wt[w], j |-> PostIndex(w), post |-> Tagged(w)])
            /\ wposts' = [wposts EXCEPT ![w] = Tail(@)]
            /\ wpc' = [wpc EXCEPT ![w] = AfterPosts(Tail(wposts[w]))]
            /\ wt' = [wt EXCEPT ![w] = IF Tail(wposts[w]) = << >> THEN 0 ELSE @]
    /\ UNCHANGED << sigChan, startVars, reportVars, limVars, openVars, mainVars, inputVars, jobVars,
                    resultClosed, ctxDone, sigpc, sinkVars, panicked, dequeued,
                    dequeuedAtCancel, pushedAtCancel, fetchCalls, returned >>

\* the send in a select with a case for ctx.Done(): a worker that finds the
\* channel full with cancellation asserted returns
WorkerPushOrGiveUp(w) ==
    /\ ~panicked
    /\ wpc[w] = "posts"
    /\ Include(Tagged(w), targets[wt[w]])
    /\ ~resultClosed
    /\ IF Len(resultQueue) < ResultCap
       THEN /\ resultQueue' = Append(resultQueue, Tagged(w))
            /\ pushLog' = Append(pushLog,
                                 [t |-> wt[w], j |-> PostIndex(w), post |-> Tagged(w)])
            /\ wposts' = [wposts EXCEPT ![w] = Tail(@)]
            /\ wpc' = [wpc EXCEPT ![w] = AfterPosts(Tail(wposts[w]))]
            /\ wt' = [wt EXCEPT ![w] = IF Tail(wposts[w]) = << >> THEN 0 ELSE @]
       ELSE /\ ctxDone
            /\ wposts' = [wposts EXCEPT ![w] = << >>]
            /\ wpc' = [wpc EXCEPT ![w] = "done"]
            /\ wt' = [wt EXCEPT ![w] = 0]
            /\ UNCHANGED << resultQueue, pushLog >>
    /\ UNCHANGED << sigChan, startVars, reportVars, limVars, openVars, mainVars, inputVars, jobVars,
                    resultClosed, ctxDone, sigpc, sinkVars, panicked, dequeued,
                    dequeuedAtCancel, pushedAtCancel, fetchCalls, returned >>

\* the post is tagged and passes: resultQueue <- p.  The send waits while
\* the channel is full and panics when the channel is closed
WorkerPush(w) ==
    /\ ~panicked
    /\ wpc[w] = "posts"
    /\ Include(Tagged(w), targets[wt[w]])
    /\ IF resultClosed
       THEN /\ panicked' = TRUE
            /\ UNCHANGED << resultQueue, workerVars, pushLog >>
       ELSE /\ Len(resultQueue) < ResultCap
            /\ resultQueue' = Append(resultQueue, Tagged(w))
            /\ pushLog' = Append(pushLog,
                                 [t |-> wt[w], j |-> PostIndex(w), post |-> Tagged(w)])
            /\ wposts' = [wposts EXCEPT ![w] = Tail(@)]
            /\ wpc' = [wpc EXCEPT ![w] = AfterPosts(Tail(wposts[w]))]
            /\ wt' = [wt EXCEPT ![w] = IF Tail(wposts[w]) = << >> THEN 0 ELSE @]
            /\ UNCHANGED panicked
    /\ UNCHANGED << sigChan, startVars, reportVars, limVars, openVars, mainVars, inputVars, jobVars, resultClosed, ctxDone, sigpc,
                    sinkVars, dequeued, dequeuedAtCancel, pushedAtCancel, fetchCalls, returned >>

----------------------------------------------------------------------------
(* storage.WriterService.Start *)

\* os.OpenFile(w.FilePath, O_APPEND|O_CREATE|O_WRONLY) succeeds
SinkOpen ==
    /\ ~panicked
    /\ sinkpc = "start"
    /\ sinkpc' = "loop"
    /\ writerOpens' = writerOpens + 1
    /\ UNCHANGED << sigChan, startVars, reportVars, limVars, readerOpened, mainVars, inputVars, jobVars, resultQueue,
                    resultClosed, ctxDone, sigpc, workerVars, store, storeErr,
                    panicked, histVars >>

\* the open failure without the return: the writer goes on to its loop
SinkOpenFailsNoReturn ==
    /\ ~panicked
    /\ sinkpc = "start"
    /\ storeErr' = TRUE
    /\ sinkpc' = "loop"
    /\ writerOpens' = writerOpens + 1
    /\ UNCHANGED << sigChan, startVars, reportVars, limVars, readerOpened, mainVars, inputVars, jobVars,
                    resultQueue, resultClosed, ctxDone, sigpc, workerVars, store,
                    panicked, histVars >>

\* os.OpenFile fails: if err != nil { return } (defer wg.Done())
SinkOpenFails ==
    /\ ~panicked
    /\ sinkpc = "start"
    /\ storeErr' = TRUE
    /\ sinkpc' = "done"
    /\ writerOpens' = writerOpens + 1
    /\ UNCHANGED << sigChan, startVars, reportVars, limVars, readerOpened, mainVars, inputVars, jobVars, resultQueue,
                    resultClosed, ctxDone, sigpc, workerVars, store, panicked,
                    histVars >>

\* the file opened without os.O_APPEND: the writes start at the beginning of
\* the file and go over the lines that are there
SinkWriteFromStart ==
    /\ ~panicked
    /\ sinkpc = "loop"
    /\ resultQueue # << >>
    /\ LET k == Len(pushLog) - Len(resultQueue) + 1
       IN  store' = IF k <= Len(store)
                    THEN [store EXCEPT ![k] = Encode(Head(resultQueue))]
                    ELSE Append(store, Encode(Head(resultQueue)))
    /\ resultQueue' = Tail(resultQueue)
    /\ UNCHANGED << sigChan, startVars, reportVars, limVars, openVars, mainVars, inputVars, jobVars,
                    resultClosed, ctxDone, sigpc, workerVars, sinkpc, storeErr,
                    panicked, histVars >>

\* the writer taking the newest record of the queue instead of the oldest
SinkWriteNewest ==
    /\ ~panicked
    /\ sinkpc = "loop"
    /\ resultQueue # << >>
    /\ store' = Append(store, Encode(resultQueue[Len(resultQueue)]))
    /\ resultQueue' = SubSeq(resultQueue, 1, Len(resultQueue) - 1)
    /\ UNCHANGED << sigChan, startVars, reportVars, limVars, openVars, mainVars, inputVars, jobVars,
                    resultClosed, ctxDone, sigpc, workerVars, sinkpc, storeErr,
                    panicked, histVars >>

\* for post := range input { enc.Encode(post) }: one post is received and
\* its line appended to the file
SinkWrite ==
    /\ ~panicked
    /\ sinkpc = "loop"
    /\ resultQueue # << >>
    /\ store' = Append(store, Encode(Head(resultQueue)))
    /\ resultQueue' = Tail(resultQueue)
    /\ UNCHANGED << sigChan, startVars, reportVars, limVars, openVars, mainVars, inputVars, jobVars, resultClosed, ctxDone, sigpc,
                    workerVars, sinkpc, storeErr, panicked, histVars >>

\* for post := range input: the channel is closed and empty, the loop ends,
\* f.Close() and wg.Done() run
SinkExit ==
    /\ ~panicked
    /\ sinkpc = "loop"
    /\ resultQueue = << >>
    /\ resultClosed
    /\ sinkpc' = "done"
    /\ UNCHANGED << sigChan, startVars, reportVars, limVars, openVars, mainVars, inputVars, jobVars, resultQueue, resultClosed,
                    ctxDone, sigpc, workerVars, store, storeErr, panicked,
                    histVars >>

----------------------------------------------------------------------------
(* dashboard: the goroutine main starts first serves HTTP requests; every  *)
(* request to "/" calls loadData("data/current.json")                      *)

\* the file opened with os.Create, which truncates it
OpenTruncating(file) == << >>

\* os.Open(path): the file is opened read-only, its content stays as it is
OpenReadOnly(file) == file

\* loadData: os.Open, scan and decode the lines, sort, f.Close(); the process
\* serves requests from its start until it exits
LoadData ==
    /\ ~panicked
    /\ mainpc # "exited"
    /\ readerOpened' = TRUE
    /\ store' = OpenReadOnly(store)
    /\ UNCHANGED << sigChan, startVars, reportVars, limVars, writerOpens, mainVars, inputVars, jobVars, resultQueue,
                    resultClosed, ctxDone, sigpc, workerVars, sinkpc, storeErr,
                    panicked, histVars >>

----------------------------------------------------------------------------
Next ==
    \/ MainCollectorFails
    \/ MainStart
    \/ MainEnqueue
    \/ MainCloseJobs
    \/ MainNotify
    \/ MainCloseResults
    \/ MainComplete
    \/ SignalCancel
    \/ \E w \in Workers : WorkerDequeue(w)
    \/ \E w \in Workers : WorkerQueueExhausted(w)
    \/ \E w \in Workers : WorkerCancelled(w)
    \/ \E w \in Workers : WorkerFetchCall(w)
    \/ \E w \in Workers : FetchReturnsPosts(w)
    \/ \E w \in Workers : FetchReturnsError(w)
    \/ \E w \in Workers : WorkerDiscard(w)
    \/ \E w \in Workers : WorkerPush(w)
    \/ SinkOpen
    \/ SinkOpenFails
    \/ SinkWrite
    \/ SinkExit

Spec == Init /\ [][Next]_vars

\* the pipeline and the dashboard goroutine main starts beside it, whose
\* handler reads the store on a request
DashboardNext ==
    \/ Next
    \/ LoadData

----------------------------------------------------------------------------
(* One adapter instance and the workers calling FetchNewPosts on it: the   *)
(* limiter.Wait(ctx) that opens APIClient.FetchNewPosts and                *)
(* PublicClient.FetchNewPosts, with the clock; the pipeline stands still   *)

pipelineVars ==
    << mode, targets, keywords, mainpc, enqueued, jobQueue, jobClosed,
       resultQueue, resultClosed, ctxDone, sigpc, wpc, wt, wposts, sinkpc,
       store, storeErr, panicked, histVars, openVars, sigChan >>

\* a second of time passes
Tick ==
    /\ now < MaxTime
    /\ now' = now + 1
    /\ UNCHANGED << limTokens, limLast, limpc, limAt, admitted, pipelineVars, startVars, reportVars >>

\* limiter.Wait(ctx), first half, under the limiter's mutex: the bucket is
\* refilled for the time since the last update, never above the burst, one
\* token is taken, and a deficit becomes the delay of the reservation
LimiterReserve(w) ==
    /\ limpc[w] = "idle"
    /\ Len(admitted) < MaxRequests
    /\ LET tokens == Min(FullBucket(mode), limTokens + (now - limLast))
                         - Interval(mode)
           delay == IF tokens < 0 THEN 0 - tokens ELSE 0
       IN  /\ limTokens' = tokens
           /\ limLast' = now
           /\ limAt' = [limAt EXCEPT ![w] = now + delay]
           /\ admitted' = Append(admitted, [by |-> w, at |-> now, act |-> now + delay])
    /\ limpc' = [limpc EXCEPT ![w] = "wait"]
    /\ UNCHANGED << now, pipelineVars, startVars, reportVars >>

\* limiter.Wait(ctx), second half: the delay is over (at once when it is
\* zero, else when the timer has fired), Wait returns nil and the adapter
\* sends its request
LimiterAdmit(w) ==
    /\ limpc[w] = "wait"
    /\ now >= limAt[w]
    /\ limpc' = [limpc EXCEPT ![w] = "request"]
    /\ UNCHANGED << now, limTokens, limLast, limAt, admitted, pipelineVars, startVars, reportVars >>

\* the request is answered and FetchNewPosts returns; the worker can call
\* again for its next target
RequestReturns(w) ==
    /\ limpc[w] = "request"
    /\ limpc' = [limpc EXCEPT ![w] = "idle"]
    /\ UNCHANGED << now, limTokens, limLast, limAt, admitted, pipelineVars, startVars, reportVars >>

\* an adapter that has a limiter, and no target of the pipeline under way
LimiterInit ==
    /\ Init
    /\ mode \in {"api", "public"}
    /\ Len(targets) = 0
    /\ keywords = << >>

LimiterNext ==
    \/ Tick
    \/ \E w \in Workers : LimiterReserve(w)
    \/ \E w \in Workers : LimiterAdmit(w)
    \/ \E w \in Workers : RequestReturns(w)

LimiterSpec == LimiterInit /\ [][LimiterNext]_vars

\* a run with the public adapter, hence with PublicWorkers workers
PublicInit == Init /\ mode = "public"

\* Scheduling of the Go runtime: the writer goroutine, once it can receive,
\* is scheduled and receives; senders blocked on a full channel wait in a
\* first-in first-out queue, so a sender that can send again and again
\* does send
Fairness ==
    /\ WF_vars(SinkWrite)
    /\ \A w \in 1..PublicWorkers : SF_vars(WorkerPush(w))

FairSpec == PublicInit /\ [][Next]_vars /\ Fairness

\* the same run without an assumption about scheduling
PublicSpec == PublicInit /\ [][Next]_vars

\* the same run beside the dashboard
DashboardSpec == PublicInit /\ [][DashboardNext]_vars

----------------------------------------------------------------------------
(* The functions main calls before the pipeline: ingest.LoadTargets,       *)
(* ingest.LoadKeywords and collector.NewCollector, each applied to its     *)
(* inputs.  A file is the sequence of rows csv.Reader finds in it after    *)
(* stripBOM; empty lines, which the reader passes over, are not rows       *)

\* largest number of rows of an input file
MaxRows == 3

\* longest identifier the pattern accepts
MaxSubLen == 21

\* shortest identifier the pattern accepts
MinSubLen == 3

Letters ==
    {"a", "b", "c", "d", "e", "f", "g", "h", "i", "j", "k", "l", "m", "n",
     "o", "p", "q", "r", "s", "t", "u", "v", "w", "x", "y", "z",
     "A", "B", "C", "D", "E", "F", "G", "H", "I", "J", "K", "L", "M", "N",
     "O", "P", "Q", "R", "S", "T", "U", "V", "W", "X", "Y", "Z"}

Digits == {"0", "1", "2", "3", "4", "5", "6", "7", "8", "9"}

\* subNameRegex.MatchString(s): ^[A-Za-z0-9_]{3,21}$
SubNameMatches(s) ==
    /\ Len(s) >= MinSubLen
    /\ Len(s) <= MaxSubLen
    /\ \A i \in 1..Len(s) : s[i] \in Letters \cup Digits \cup {"_"}

\* the white space strings.TrimSpace removes (of it the files hold these)
Spaces == {" ", "\t"}

\* strings.TrimSpace(s): s without its leading and trailing white space
TrimSpace(s) ==
    LET ink == {i \in 1..Len(s) : s[i] \notin Spaces}
    IN  IF ink = {} THEN << >>
        ELSE SubSeq(s, CHOOSE i \in ink : \A j \in ink : i <= j,
                       CHOOSE i \in ink : \A j \in ink : i >= j)

DigitVal(c) ==
    CASE c = "0" -> 0 [] c = "1" -> 1 [] c = "2" -> 2 [] c = "3" -> 3
      [] c = "4" -> 4 [] c = "5" -> 5 [] c = "6" -> 6 [] c = "7" -> 7
      [] c = "8" -> 8 [] OTHER -> 9

RECURSIVE DecimalValue(_, _)
\* the value of a run of decimal digits, acc being the value of those read
DecimalValue(s, acc) ==
    IF s = << >> THEN acc
    ELSE DecimalValue(Tail(s), 10 * acc + DigitVal(Head(s)))

\* strconv.Atoi(s): an optional sign and at least one digit, nothing else;
\* on a syntax error the value is 0 (numbers out of the range of int are
\* not among the inputs)
Atoi(s) ==
    LET signed == s # << >> /\ Head(s) \in {"+", "-"}
        digits == IF signed THEN Tail(s) ELSE s
        ok == digits # << >> /\ \A i \in 1..Len(digits) : digits[i] \in Digits
    IN  IF ~ok THEN [val |-> 0, err |-> "syntax"]
        ELSE [val |-> IF signed /\ Head(s) = "-"
                      THEN 0 - DecimalValue(digits, 0)
                      ELSE DecimalValue(digits, 0),
              err |-> "nil"]

\* a row of a file: the fields the reader gets out of it, and whether a
\* quoting mistake stops the reader after these fields
Row(fields, bad) == [fields |-> fields, bad |-> bad]

SubGood == <<"g", "o", "1">>
SubPadded == <<" ", "A", "_", "2", "\t">>
SubShort == <<"g", "o">>
SubBadChar == <<"g", "-", "o">>
SubLongest == [i \in 1..MaxSubLen |-> "a"]
SubTooLong == [i \in 1..(MaxSubLen + 1) |-> "a"]

\* the rows the files are made of; each serves as a row of subreddits.csv
\* and as a row of keywords.csv
Rows ==
    { Row(<< <<"s", "u", "b">>, <<"m", "i", "n">> >>, FALSE),
      Row(<< <<"k", "w">> >>, FALSE),
      Row(<< SubGood, <<"1", "0">> >>, FALSE),
      Row(<< SubPadded, <<" ", "-", "7">> >>, FALSE),
      Row(<< SubGood, <<"x">> >>, FALSE),
      Row(<< SubShort, <<"5">> >>, FALSE),
      Row(<< SubBadChar, <<"5">> >>, FALSE),
      Row(<< SubLongest, <<"5">> >>, FALSE),
      Row(<< SubTooLong, <<"5">> >>, FALSE),
      Row(<< SubGood >>, FALSE),
      Row(<< SubGood >>, TRUE),
      Row(<< >>, TRUE),
      Row(<< <<" ", "\t">> >>, FALSE),
      Row(<< << >>, <<"5">> >>, FALSE) }

RECURSIVE FilesOf(_)
\* the files of n rows
FilesOf(n) ==
    IF n = 0 THEN { << >> }
    ELSE { Append(f, r) : f \in FilesOf(n - 1), r \in Rows }

Files == UNION { FilesOf(n) : n \in 0..MaxRows }

\* r.Read() on a row, FieldsPerRecord being fpr: the record and the error.
\* A quoting mistake gives the fields read before it with a parse error; a
\* row whose number of fields differs from FieldsPerRecord gives the whole
\* record with ErrFieldCount; FieldsPerRecord, 0 at first, becomes the
\* number of fields of the first record that has any
ReadRecord(row, fpr) ==
    [record |-> row.fields,
     err |-> IF row.bad THEN "parse"
             ELSE IF fpr > 0 /\ Len(row.fields) # fpr THEN "fieldcount"
             ELSE "nil",
     fields |-> IF fpr = 0 THEN Len(row.fields) ELSE fpr]

\* one turn of the loop of LoadTargets: r.Read(); at io.EOF the function
\* returns targets; a row read with an error is passed over; the first row
\* read without error is the header; a row whose trimmed first field does
\* not match is passed over; record[1] of a row of one field is out of
\* range; else a Target is appended, its MinScore what Atoi gave
LoadTargetsStep ==
    /\ startFn = "LoadTargets"
    /\ startpc = "loop"
    /\ IF csvNext > Len(csvRows)
       THEN /\ startpc' = "returned"
            /\ UNCHANGED << csvNext, csvFields, csvLine, loaded >>
       ELSE LET rd == ReadRecord(csvRows[csvNext], csvFields)
                record == rd.record
                sub == TrimSpace(record[1])
            IN  /\ csvNext' = csvNext + 1
                /\ csvFields' = rd.fields
                /\ IF rd.err # "nil"
                   THEN UNCHANGED << startpc, csvLine, loaded >>
                   ELSE /\ csvLine' = csvLine + 1
                        /\ IF csvLine + 1 = 1 \/ ~SubNameMatches(sub)
                           THEN UNCHANGED << startpc, loaded >>
                           ELSE IF Len(record) < 2
                           THEN /\ startpc' = "panic"
                                /\ UNCHANGED loaded
                           ELSE /\ loaded' = Append(loaded,
                                       Target(sub, Atoi(TrimSpace(record[2])).val))
                                /\ UNCHANGED startpc
    /\ UNCHANGED << startFn, csvRows, userAgent, collector, limVars,
                    pipelineVars, reportVars >>

\* one turn of the loop of LoadKeywords: r.Read(); at io.EOF the function
\* returns kws; any other error is not looked at; from the second row read
\* on, a record that has a field gives a keyword
LoadKeywordsStep ==
    /\ startFn = "LoadKeywords"
    /\ startpc = "loop"
    /\ IF csvNext > Len(csvRows)
       THEN /\ startpc' = "returned"
            /\ UNCHANGED << csvNext, csvFields, csvLine, loaded >>
       ELSE LET rd == ReadRecord(csvRows[csvNext], csvFields)
                rec == rd.record
            IN  /\ csvNext' = csvNext + 1
                /\ csvFields' = rd.fields
                /\ csvLine' = csvLine + 1
                /\ loaded' = IF csvLine > 0 /\ Len(rec) > 0
                             THEN Append(loaded, ToLower(TrimSpace(rec[1])))
                             ELSE loaded
                /\ UNCHANGED startpc
    /\ UNCHANGED << startFn, csvRows, userAgent, collector, limVars,
                    pipelineVars, reportVars >>

\* the values of COLLECTOR_MODE: those main knows, one it does not, unset
StartModes == Modes \cup {""}

\* the values of REDDIT_USER_AGENT: unset and set
UserAgents == {"", "ua"}

\* NewAPIClient: reddit.NewClient (of the go-reddit library) returns a
\* client or an error, and its error is handed on
NewAPIClient(clientErr) ==
    IF clientErr THEN [adapter |-> "nil", err |-> "reddit.NewClient"]
    ELSE [adapter |-> "APIClient", err |-> "nil"]

\* NewPublicClient: never an error
NewPublicClient(ua) == [adapter |-> "PublicClient", err |-> "nil"]

\* NewCollector without the check of the user agent in the public case
NewCollectorNoAgentCheck(m, ua, clientErr) ==
    CASE m = "api" -> NewAPIClient(clientErr)
      [] m = "public" -> NewPublicClient(ua)
      [] m = "mock" -> [adapter |-> "MockClient", err |-> "nil"]
      [] OTHER -> [adapter |-> "nil", err |-> "unknown COLLECTOR_MODE"]

\* NewCollector: the switch on COLLECTOR_MODE
NewCollector(m, ua, clientErr) ==
    CASE m = "api" -> NewAPIClient(clientErr)
      [] m = "public" ->
            IF ua = ""
            THEN [adapter |-> "nil", err |-> "REDDIT_USER_AGENT is required"]
            ELSE NewPublicClient(ua)
      [] m = "mock" -> [adapter |-> "MockClient", err |-> "nil"]
      [] OTHER -> [adapter |-> "nil", err |-> "unknown COLLECTOR_MODE"]

\* main calls collector.NewCollector()
NewCollectorCall ==
    /\ startFn = "NewCollector"
    /\ startpc = "call"
    /\ \E clientErr \in BOOLEAN :
          collector' = NewCollector(mode, userAgent, clientErr)
    /\ startpc' = "returned"
    /\ UNCHANGED << startFn, csvRows, csvNext, csvFields, csvLine, loaded,
                    userAgent, limVars, pipelineVars, reportVars >>

\* a function and its inputs: a loader with a file that could be opened,
\* or the factory with an environment
StartupInit ==
    /\ \/ /\ startFn \in {"LoadTargets", "LoadKeywords"}
          /\ startpc = "loop"
          /\ csvRows \in Files
          /\ mode = "mock"
          /\ userAgent = ""
       \/ /\ startFn = "NewCollector"
          /\ startpc = "call"
          /\ csvRows = << >>
          /\ mode \in StartModes
          /\ userAgent \in UserAgents
    /\ PipelineInit
    /\ Len(targets) = 0
    /\ keywords = << >>
    /\ csvNext = 1
    /\ csvFields = 0
    /\ csvLine = 0
    /\ loaded = << >>
    /\ collector = NoCollector
    /\ ReportIdle

StartupNext ==
    \/ LoadTargetsStep
    \/ LoadKeywordsStep
    \/ NewCollectorCall

StartupSpec == StartupInit /\ [][StartupNext]_vars

----------------------------------------------------------------------------
(* The pipeline with the inside of FetchNewPosts of the api and public     *)
(* adapters: limiter.Wait(ctx) first, the remote request after it.  limpc  *)
(* is the position of a worker's call; whether a reservation has to wait   *)
(* is left open here, the bucket and the clock stand still                 *)

\* the worker calls FetchNewPosts; its previous call has ended
CallStarts(w) ==
    /\ limpc[w] = "idle"
    /\ WorkerFetchCall(w)

\* limiter.Wait(ctx) finds ctx not done and reserves a token: Wait returns
\* nil at once when the delay is zero, else it blocks in its select on the
\* timer and ctx.Done()
WaitReserves(w) ==
    /\ ~panicked
    /\ wpc[w] = "fetch"
    /\ limpc[w] = "idle"
    /\ ~ctxDone
    /\ \E delayed \in BOOLEAN :
          limpc' = [limpc EXCEPT ![w] = IF delayed THEN "wait" ELSE "request"]
    /\ UNCHANGED << now, limTokens, limLast, limAt, admitted, pipelineVars,
                    startVars, reportVars >>

\* the wait on the timer alone (time.Sleep in place of the select): the
\* timer ends the wait whatever ctx says
WaitTimerFiresAnyway(w) ==
    /\ ~panicked
    /\ wpc[w] = "fetch"
    /\ limpc[w] = "wait"
    /\ limpc' = [limpc EXCEPT ![w] = "request"]
    /\ UNCHANGED << now, limTokens, limLast, limAt, admitted, pipelineVars,
                    startVars, reportVars >>

\* the timer of a blocked Wait fires before ctx.Done() is closed: Wait
\* returns nil and the adapter sends its request.  Once ctx.Done() is
\* closed a blocked Wait is woken by it and the timer no longer counts
WaitTimerFires(w) ==
    /\ ~panicked
    /\ wpc[w] = "fetch"
    /\ limpc[w] = "wait"
    /\ ~ctxDone
    /\ limpc' = [limpc EXCEPT ![w] = "request"]
    /\ UNCHANGED << now, limTokens, limLast, limAt, admitted, pipelineVars,
                    startVars, reportVars >>

\* limiter.Wait(ctx) finds ctx done on entry: it returns ctx.Err(), and
\* FetchNewPosts returns nil, err
WaitRejected(w) ==
    /\ limpc[w] = "idle"
    /\ ctxDone
    /\ FetchReturnsError(w)

\* a blocked Wait is woken by ctx.Done(): it returns ctx.Err(), and
\* FetchNewPosts returns nil, err
WaitCancelled(w) ==
    /\ limpc[w] = "wait"
    /\ ctxDone
    /\ FetchReturnsError(w)

\* the request fails (transport error, bad status, undecodable body)
RequestFails(w) ==
    /\ limpc[w] = "request"
    /\ FetchReturnsError(w)

\* the request is answered with a listing
RequestSucceeds(w) ==
    /\ limpc[w] = "request"
    /\ FetchReturnsPosts(w)

\* the call that sent a request is over
CallEnds(w) ==
    /\ ~panicked
    /\ wpc[w] # "fetch"
    /\ RequestReturns(w)

\* a run with an adapter that has a limiter
CancelInit ==
    /\ Init
    /\ mode \in {"api", "public"}
    /\ keywords = KeywordsDup

CancelNext ==
    \/ MainCollectorFails
    \/ MainStart
    \/ MainEnqueue
    \/ MainCloseJobs
    \/ MainNotify
    \/ MainCloseResults
    \/ MainComplete
    \/ SignalCancel
    \/ \E w \in Workers : WorkerDequeue(w)
    \/ \E w \in Workers : WorkerQueueExhausted(w)
    \/ \E w \in Workers : WorkerCancelled(w)
    \/ \E w \in Workers : CallStarts(w)
    \/ \E w \in Workers : WaitReserves(w)
    \/ \E w \in Workers : WaitTimerFires(w)
    \/ \E w \in Workers : WaitRejected(w)
    \/ \E w \in Workers : WaitCancelled(w)
    \/ \E w \in Workers : RequestFails(w)
    \/ \E w \in Workers : RequestSucceeds(w)
    \/ \E w \in Workers : CallEnds(w)
    \/ \E w \in Workers : WorkerDiscard(w)
    \/ \E w \in Workers : WorkerPush(w)
    \/ SinkOpen
    \/ SinkOpenFails
    \/ SinkWrite
    \/ SinkExit

CancelSpec == CancelInit /\ [][CancelNext]_vars

----------------------------------------------------------------------------
(* A run with more targets than workers: the public adapter and one target *)
(* more than it has workers                                                *)

\* number of targets of the run: one more than the public adapter's workers
PoolTargets == PublicWorkers + 1

PoolInit ==
    /\ mode = "public"
    /\ targets = TargetList(PoolTargets)
    /\ keywords = KeywordsDup
    /\ RunInit
    /\ StartIdle
    /\ ReportIdle

PoolSpec == PoolInit /\ [][Next]_vars

----------------------------------------------------------------------------
(* The pipeline with the delivery of signals apart from their handling:    *)
(* signal.Notify relays SIGINT and SIGTERM to sigChan without blocking,    *)
(* and the handler goroutine receives from sigChan once                    *)

\* sigChan := make(chan os.Signal, 1)
SigChanCap == 1

\* a SIGINT or SIGTERM reaches the process after signal.Notify: it is put
\* in the buffer of sigChan, or dropped when the buffer is full
SignalArrives ==
    /\ ~panicked
    /\ mainpc # "exited"
    /\ sigpc \in {"listening", "done"}
    /\ sigChan' = Min(SigChanCap, sigChan + 1)
    /\ UNCHANGED << startVars, reportVars, limVars, openVars, mainVars, inputVars, jobVars,
                    resultQueue, resultClosed, ctxDone, sigpc, workerVars,
                    sinkVars, panicked, histVars >>

\* a handler that goes on receiving, and ends the process at the second
\* signal
HandlerReceivesEvery ==
    /\ ~panicked
    /\ mainpc # "exited"
    /\ sigpc \in {"listening", "done"}
    /\ sigChan > 0
    /\ sigChan' = sigChan - 1
    /\ IF sigpc = "listening"
       THEN /\ sigpc' = "done"
            /\ ctxDone' = TRUE
            /\ dequeuedAtCancel' = dequeued
            /\ pushedAtCancel' = Len(pushLog)
            /\ UNCHANGED mainVars
       ELSE /\ mainpc' = "exited"
            /\ UNCHANGED << enqueued, sigpc, ctxDone, dequeuedAtCancel,
                            pushedAtCancel >>
    /\ UNCHANGED << startVars, reportVars, limVars, openVars, inputVars, jobVars,
                    resultQueue, resultClosed, workerVars, sinkVars, panicked,
                    dequeued, fetchCalls, returned, pushLog >>

\* go func() { <-sigChan; logger.Info(...); cancel() }(): the handler
\* receives one signal, cancels the context and returns
HandlerReceives ==
    /\ ~panicked
    /\ sigpc = "listening"
    /\ sigChan > 0
    /\ sigChan' = sigChan - 1
    /\ sigpc' = "done"
    /\ ctxDone' = TRUE
    /\ dequeuedAtCancel' = dequeued
    /\ pushedAtCancel' = Len(pushLog)
    /\ UNCHANGED << startVars, reportVars, limVars, openVars, mainVars, inputVars, jobVars,
                    resultQueue, resultClosed, workerVars, sinkVars, panicked,
                    dequeued, fetchCalls, returned, pushLog >>

\* a run with the public adapter
ShutdownInit == Init /\ mode = "public"

ShutdownNext ==
    \/ MainCollectorFails
    \/ MainStart
    \/ MainEnqueue
    \/ MainCloseJobs
    \/ MainNotify
    \/ MainCloseResults
    \/ MainComplete
    \/ SignalArrives
    \/ HandlerReceives
    \/ \E w \in Workers : WorkerDequeue(w)
    \/ \E w \in Workers : WorkerQueueExhausted(w)
    \/ \E w \in Workers : WorkerCancelled(w)
    \/ \E w \in Workers : WorkerFetchCall(w)
    \/ \E w \in Workers : FetchReturnsPosts(w)
    \/ \E w \in Workers : FetchReturnsError(w)
    \/ \E w \in Workers : WorkerDiscard(w)
    \/ \E w \in Workers : WorkerPush(w)
    \/ SinkOpen
    \/ SinkOpenFails
    \/ SinkWrite
    \/ SinkExit
    \/ LoadData

ShutdownSpec == ShutdownInit /\ [][ShutdownNext]_vars

----------------------------------------------------------------------------
(* The store read back: WriterService.Start appends the line of a post,    *)
(* and the handler of "/" calls loadData and sorts what it returns.  A     *)
(* line of the file is the JSON object enc.Encode wrote (its keys and      *)
(* values) or, when it is not a JSON object, its raw text                  *)

\* the lines the file can hold at most
MaxLines == 3

\* bufio.MaxScanTokenSize, the largest line the scanner of bufio.NewScanner
\* takes; it is 64 * 1024 in the library
MaxScanTokenSize == 8

\* a line of raw text
RawLine(text) == [raw |-> text]

EmptyLine == RawLine(<< >>)
GarbageLine == RawLine(<<"{", "x">>)

\* a JSON object with a score only, and one whose score is a string: the
\* keys whose value has another type than the field are named in mistyped
ScoreOnlyLine == [score |-> 9]
ScoreTextLine == [id |-> "p4", mistyped |-> {"score"}]

TitleLong == [i \in 1..MaxScanTokenSize |-> "x"]

\* a line of raw text as long as the scanner's buffer
LongLine == RawLine(TitleLong)

\* what an editor or a broken write can have left in the file
ForeignLines ==
    {EmptyLine, GarbageLine, ScoreOnlyLine, ScoreTextLine, LongLine}

\* posts a worker can send: untagged, tagged, and one with a long title
PostLong == Post("p5", TitleLong, 50)

SentPosts ==
    {PostHighMiss, PostLowMiss, Tag(PostLowHit, KeywordsDup), PostLong}

\* the bytes of a line, counted over its text: the title of an object, the
\* text of a raw line; the other fields are short
LineLen(line) ==
    IF "raw" \in DOMAIN line THEN Len(line.raw)
    ELSE IF "title" \in DOMAIN line THEN Len(line.title)
    ELSE 0

\* scanner.Scan() returns false on a line that does not fit the buffer
\* (bufio.ErrTooLong), as it does at the end of the file
ScanStops(line) == LineLen(line) >= MaxScanTokenSize

\* the value of a key of a JSON object, or the zero value of the field
Field(line, key, zero) == IF key \in DOMAIN line THEN line[key] ELSE zero

\* json.Unmarshal(line, &p) with p a zero domain.Post: raw text that is not
\* JSON is a syntax error, a string where the field is an int is a type
\* error, an absent key leaves the field at its zero value
Unmarshal(line) ==
    IF "raw" \in DOMAIN line THEN [err |-> "syntax"]
    ELSE IF Field(line, "mistyped", {}) # {} THEN [err |-> "type"]
    ELSE [err |-> "nil",
          post |-> [ID |-> Field(line, "id", ""),
                    Title |-> Field(line, "title", << >>),
                    Subreddit |-> Field(line, "subreddit", ""),
                    Author |-> Field(line, "author", ""),
                    URL |-> Field(line, "url", ""),
                    Score |-> Field(line, "score", 0),
                    CommentCount |-> Field(line, "comment_count", 0),
                    CreatedUTC |-> Field(line, "created_utc", 0),
                    KeywordsHit |-> Field(line, "keywords_hit", << >>)]]

\* enc.Encode(post) in the loop of WriterService.Start, for a post a worker
\* has sent: its line is appended to the file
WriterEncode ==
    /\ storeExists
    /\ Len(store) < MaxLines
    /\ \E p \in SentPosts :
          /\ store' = Append(store, Encode(p))
          /\ written' = Append(written, p)
    /\ UNCHANGED << storeExists, loadpc, scanNext, loadedPosts, startVars,
                    limVars, mode, targets, keywords, mainpc, enqueued,
                    jobQueue, jobClosed, resultQueue, resultClosed, ctxDone,
                    sigpc, sigChan, wpc, wt, wposts, sinkpc, storeErr,
                    panicked, histVars, openVars >>

\* the part of a request that leaves the file alone
requestFrame ==
    << storeExists, written, startVars, limVars, pipelineVars >>

\* loadData: os.Open(path); an error returns []domain.Post{}
LoadOpen ==
    /\ loadpc = "idle"
    /\ loadedPosts' = << >>
    /\ scanNext' = 1
    /\ loadpc' = IF storeExists THEN "scan" ELSE "loaded"
    /\ UNCHANGED requestFrame

\* loadData: one turn of for scanner.Scan(): the loop ends at the end of the
\* file and on a line the scanner does not take (scanner.Err() is not looked
\* at); an empty line is passed over; a line json.Unmarshal takes is
\* appended, any other line is passed over
LoadScan ==
    /\ loadpc = "scan"
    /\ IF scanNext > Len(store) \/ ScanStops(store[scanNext])
       THEN /\ loadpc' = "loaded"
            /\ UNCHANGED << scanNext, loadedPosts >>
       ELSE LET line == store[scanNext]
                u == Unmarshal(line)
            IN  /\ scanNext' = scanNext + 1
                /\ loadedPosts' = IF line # EmptyLine /\ u.err = "nil"
                                  THEN Append(loadedPosts, u.post)
                                  ELSE loadedPosts
                /\ UNCHANGED loadpc
    /\ UNCHANGED requestFrame

\* the orders of the n elements of a slice
Orders(n) == { f \in [1..n -> 1..n] : \A i, j \in 1..n : f[i] = f[j] => i = j }

\* sort.Slice(posts, less) with less = posts[i].Score > posts[j].Score: the
\* elements in an order in which no score is below a later one; the sort is
\* not stable, elements of equal score come out in any order
SortByScore(s) ==
    { [n \in 1..Len(s) |-> s[f[n]]] : f \in
        { g \in Orders(Len(s)) :
            \A a, b \in 1..Len(s) : a < b => s[g[a]].Score >= s[g[b]].Score } }

\* the handler: posts := loadData(dataFile), then sort.Slice by score; the
\* page lists posts in this order
HandlerSort ==
    /\ loadpc = "loaded"
    /\ loadedPosts' \in SortByScore(loadedPosts)
    /\ loadpc' = "served"
    /\ UNCHANGED << scanNext, requestFrame >>

\* the lines of the file before the writer appends to it: of an earlier run
\* or foreign
MaxInitialLines == 2

InitialFiles ==
    UNION { [1..n -> ForeignLines \cup {PriorStore[1]}] : n \in 0..MaxInitialLines }

\* the file a request finds: missing, or with lines in it
ReportInit ==
    /\ mode = "mock"
    /\ targets = << >>
    /\ keywords = << >>
    /\ RunStart
    /\ StartIdle
    /\ \/ storeExists = FALSE /\ store = << >>
       \/ storeExists = TRUE /\ store \in InitialFiles
    /\ loadpc = "idle"
    /\ scanNext = 1
    /\ loadedPosts = << >>
    /\ written = << >>

ReportNext ==
    \/ WriterEncode
    \/ LoadOpen
    \/ LoadScan
    \/ HandlerSort

ReportSpec == ReportInit /\ [][ReportNext]_vars

----------------------------------------------------------------------------
(* A run whose adapter answers by the source alone: asked for the same     *)
(* source it returns the same, whichever worker asks and whenever; with    *)
(* the authenticated adapter four workers run, with the public one two     *)

\* what the adapter returns for a source: the listing of one, an error for
\* the other
FixedResult(sub) ==
    IF sub = "golang" THEN [status |-> "ok", posts |-> Listing(sub)]
    ELSE [status |-> "err", posts |-> << >>]

\* FetchNewPosts returns the posts of the source
FixedReturnsPosts(w) ==
    /\ ~panicked
    /\ wpc[w] = "fetch"
    /\ FixedResult(targets[wt[w]].Subreddit).status = "ok"
    /\ LET batch == FixedResult(targets[wt[w]].Subreddit).posts
       IN  /\ wposts' = [wposts EXCEPT ![w] = batch]
           /\ returned' = [returned EXCEPT ![wt[w]] = [status |-> "ok", posts |-> batch]]
           /\ wpc' = [wpc EXCEPT ![w] = AfterPosts(batch)]
           /\ wt' = [wt EXCEPT ![w] = IF batch = << >> THEN 0 ELSE @]
    /\ UNCHANGED << sigChan, startVars, reportVars, limVars, openVars, mainVars,
                    inputVars, jobVars, resultQueue, resultClosed, ctxDone,
                    sigpc, sinkVars, panicked, dequeued, dequeuedAtCancel,
                    pushedAtCancel, fetchCalls, pushLog >>

\* FetchNewPosts returns the error of the source
FixedReturnsError(w) ==
    /\ wpc[w] = "fetch"
    /\ FixedResult(targets[wt[w]].Subreddit).status = "err"
    /\ FetchReturnsError(w)

FixedInit ==
    /\ mode \in {"api", "public"}
    /\ targets = TargetList(PoolTargets)
    /\ keywords = KeywordsDup
    /\ RunInit
    /\ StartIdle
    /\ ReportIdle

FixedNext ==
    \/ MainCollectorFails
    \/ MainStart
    \/ MainEnqueue
    \/ MainCloseJobs
    \/ MainNotify
    \/ MainCloseResults
    \/ MainComplete
    \/ SignalCancel
    \/ \E w \in Workers : WorkerDequeue(w)
    \/ \E w \in Workers : WorkerQueueExhausted(w)
    \/ \E w \in Workers : WorkerCancelled(w)
    \/ \E w \in Workers : WorkerFetchCall(w)
    \/ \E w \in Workers : FixedReturnsPosts(w)
    \/ \E w \in Workers : FixedReturnsError(w)
    \/ \E w \in Workers : WorkerDiscard(w)
    \/ \E w \in Workers : WorkerPush(w)
    \/ SinkOpen
    \/ SinkOpenFails
    \/ SinkWrite
    \/ SinkExit

FixedSpec == FixedInit /\ [][FixedNext]_vars

----------------------------------------------------------------------------
(* Properties *)

TargetIds == 1..Len(targets)

\* the lines the run has appended to the store
NewLines == SubSeq(store, Len(PriorStore) + 1, Len(store))

\* the number of posts of target i a worker has decided on (sent or dropped)
Handled(i) ==
    IF returned[i].status # "ok" THEN 0
    ELSE IF \E w \in Workers : wt[w] = i /\ wpc[w] = "posts"
         THEN LET w == CHOOSE w \in Workers : wt[w] = i /\ wpc[w] = "posts"
              IN  Len(returned[i].posts) - Len(wposts[w])
         ELSE Len(returned[i].posts)

\* the j-th post returned for target i was sent on resultQueue
Pushed(i, j) == \E n \in DOMAIN pushLog : pushLog[n].t = i /\ pushLog[n].j = j

\* the keywords, in configuration order and once per entry, contained in
\* the lower-cased title
ExpectedHits(title) ==
    LET idx == { i \in 1..Len(keywords) : Contains(ToLower(title), keywords[i]) }
        nth(n) == CHOOSE i \in idx : Cardinality({ j \in idx : j <= i }) = n
    IN  [n \in 1..Cardinality(idx) |-> keywords[nth(n)]]

\* r.score >= T.minScore OR r's matched-keywords list is non-empty
Passes(i, j) ==
    \/ returned[i].posts[j].Score >= targets[i].MinScore
    \/ Len(ExpectedHits(returned[i].posts[j].Title)) > 0

\* C1: a record returned by a successful fetch for target T and decided on by
\* the worker has been pushed onto the result queue if and only if its score
\* is at least T's minimum score or its title contains a configured keyword;
\* nothing else is ever pushed
C1_PushedIffScoreOrKeyword ==
    /\ \A i \in TargetIds : \A j \in 1..Handled(i) : Pushed(i, j) <=> Passes(i, j)
    /\ \A n \in DOMAIN pushLog :
          /\ pushLog[n].t \in TargetIds
          /\ pushLog[n].j \in 1..Handled(pushLog[n].t)

\* C1 witness: a low-score record with a keyword hit and a high-score record
\* without one were pushed, and a low-score record without one was dropped
C1_Witness ==
    /\ \E i \in TargetIds : \E j \in 1..Handled(i) :
          /\ returned[i].posts[j].Score < targets[i].MinScore
          /\ Len(ExpectedHits(returned[i].posts[j].Title)) > 0
          /\ Pushed(i, j)
    /\ \E i \in TargetIds : \E j \in 1..Handled(i) :
          /\ returned[i].posts[j].Score >= targets[i].MinScore
          /\ Len(ExpectedHits(returned[i].posts[j].Title)) = 0
          /\ Pushed(i, j)
    /\ \E i \in TargetIds : \E j \in 1..Handled(i) :
          /\ returned[i].posts[j].Score < targets[i].MinScore
          /\ Len(ExpectedHits(returned[i].posts[j].Title)) = 0
          /\ ~Pushed(i, j)

C3_CancelBoundsFetches ==
    ctxDone =>
        /\ { i \in TargetIds : fetchCalls[i] # << >> } \subseteq dequeuedAtCancel
        /\ Cardinality({ i \in TargetIds : fetchCalls[i] # << >> })
              <= Cardinality(dequeuedAtCancel)
        /\ \A i \in TargetIds \ dequeuedAtCancel :
              /\ returned[i].status = "none"
              /\ \A n \in DOMAIN pushLog : pushLog[n].t # i
        /\ Len(NewLines) <= Cardinality({ n \in DOMAIN pushLog :
                                            pushLog[n].t \in dequeuedAtCancel })

\* C3 witness: cancellation came with one of two targets dequeued, the other
\* was dequeued afterwards, and the run completed
C3_Witness ==
    /\ ctxDone
    /\ mainpc = "complete"
    /\ Cardinality(dequeuedAtCancel) = 1
    /\ dequeued # dequeuedAtCancel
    /\ \E i \in dequeuedAtCancel : Pushed(i, 1)

\* the line carries exactly the field values of the post
LineMatches(line, p) ==
    /\ line.id = p.ID
    /\ line.title = p.Title
    /\ line.subreddit = p.Subreddit
    /\ line.author = p.Author
    /\ line.url = p.URL
    /\ line.score = p.Score
    /\ line.comment_count = p.CommentCount
    /\ line.created_utc = p.CreatedUTC
    /\ (IF "keywords_hit" \in DOMAIN line THEN line.keywords_hit ELSE << >>)
          = p.KeywordsHit

\* the j-th post returned for target i, as the Tagger must leave it
TaggedRecord(i, j) ==
    [returned[i].posts[j] EXCEPT
        !.KeywordsHit = ExpectedHits(returned[i].posts[j].Title)]

\* the records of successful fetches that pass the inclusion predicate
IncludedRecords ==
    { ij \in TargetIds \X (1..MaxPosts) :
        /\ returned[ij[1]].status = "ok"
        /\ ij[2] <= Len(returned[ij[1]].posts)
        /\ Passes(ij[1], ij[2]) }

\* all workers exited, result queue closed, Sink exited
RunCompleted ==
    /\ \A w \in Workers : wpc[w] = "done"
    /\ resultClosed
    /\ sinkpc = "done"

\* C4 (as claimed): in every completed run the number of lines appended to
\* the store equals the number of records of successful fetches that passed
\* the inclusion predicate
C4_CompletedRunStoresEveryIncluded ==
    RunCompleted => Len(NewLines) = Cardinality(IncludedRecords)

C6_WrittenOnceUnchanged ==
    /\ Len(NewLines) + Len(resultQueue) = Len(pushLog)
    /\ \A n \in 1..Len(NewLines) : LineMatches(NewLines[n], pushLog[n].post)
    /\ \A k \in 1..Len(resultQueue) :
          resultQueue[k] = pushLog[Len(NewLines) + k].post
    /\ \A m, n \in DOMAIN pushLog :
          (pushLog[m].t = pushLog[n].t /\ pushLog[m].j = pushLog[n].j) => m = n
    /\ \A n \in DOMAIN pushLog :
          pushLog[n].post = TaggedRecord(pushLog[n].t, pushLog[n].j)

\* C6 witness: a line with matched keywords and a line without have been
\* written while another record is still queued
C6_Witness ==
    /\ \E n \in 1..Len(NewLines) : "keywords_hit" \in DOMAIN NewLines[n]
    /\ \E n \in 1..Len(NewLines) : "keywords_hit" \notin DOMAIN NewLines[n]
    /\ resultQueue # << >>

\* number of entries of the sequence s equal to x
Count(s, x) == Cardinality({ n \in DOMAIN s : s[n] = x })

\* C7: the matched-keywords list of a tagged record is exactly the sequence
\* of configured keywords, in configuration order and once per entry, that
\* are substrings of the lower-cased title; hence a sub-multiset of the
\* configured list
C7_TaggingExact ==
    /\ \A w \in Workers : wpc[w] = "posts" =>
          Tagged(w).KeywordsHit = ExpectedHits(Head(wposts[w]).Title)
    /\ \A n \in DOMAIN pushLog :
          LET hits == pushLog[n].post.KeywordsHit
          IN  /\ hits = ExpectedHits(pushLog[n].post.Title)
              /\ \A m \in DOMAIN hits :
                    /\ Count(hits, hits[m]) <= Count(keywords, hits[m])
                    /\ Contains(ToLower(pushLog[n].post.Title), hits[m])

\* C7 witness: a title with upper-case letters matched a keyword configured
\* twice and got it twice, while another configured keyword did not match
C7_Witness ==
    \E n \in DOMAIN pushLog :
        LET hits == pushLog[n].post.KeywordsHit
        IN  /\ ToLower(pushLog[n].post.Title) # pushLog[n].post.Title
            /\ \E m \in DOMAIN hits : Count(hits, hits[m]) = 2
            /\ Len(hits) < Len(keywords)

\* a step of the process itself: every action but the arrival of a signal
Progress ==
    \/ MainCollectorFails \/ MainStart \/ MainEnqueue \/ MainCloseJobs
    \/ MainNotify \/ MainCloseResults \/ MainComplete
    \/ \E w \in Workers : WorkerDequeue(w)
    \/ \E w \in Workers : WorkerQueueExhausted(w)
    \/ \E w \in Workers : WorkerCancelled(w)
    \/ \E w \in Workers : WorkerFetchCall(w)
    \/ \E w \in Workers : FetchReturnsPosts(w)
    \/ \E w \in Workers : FetchReturnsError(w)
    \/ \E w \in Workers : WorkerDiscard(w)
    \/ \E w \in Workers : WorkerPush(w)
    \/ SinkOpen \/ SinkOpenFails \/ SinkWrite \/ SinkExit

\* C8 (as claimed): no component waits forever, whether or not the Sink
\* opened the store: until main has reported completion (or exited on a
\* collector failure) some component can take a step
C8_NoComponentWaitsForever ==
    mainpc \in {"complete", "exited"} \/ ENABLED Progress

\* C9: the result queue is closed only after every worker has exited,
\* completion is reported only after the Sink has exited, and no worker
\* sends on the closed result queue
C9_ShutdownOrder ==
    /\ resultClosed => \A w \in Workers : wpc[w] = "done"
    /\ mainpc = "complete" => sinkpc = "done" /\ resultClosed
    /\ ~panicked

\* C9 witness: a cancelled run in which records were pushed has completed
C9_Witness ==
    /\ mainpc = "complete"
    /\ ctxDone
    /\ Len(pushLog) >= 2
    /\ ~storeErr

\* C10 (as claimed): the Sink has exited only if the result queue is closed
\* and empty and every record pushed has been taken by the Sink
C10_SinkExitsOnlyWhenDrained ==
    sinkpc = "done" =>
        /\ resultClosed
        /\ resultQueue = << >>
        /\ Len(NewLines) = Len(pushLog)

\* a step that changes the store appends one line to it and is a receive of
\* the Sink from the result queue: main and the workers do not move
StoreStepIsSinkAppend ==
    store' # store =>
        /\ sinkpc = "loop"
        /\ Len(store') = Len(store) + 1
        /\ SubSeq(store', 1, Len(store)) = store
        /\ resultQueue' = Tail(resultQueue)
        /\ UNCHANGED << mainVars, workerVars >>

\* C11 (as claimed): the store is opened by the Sink only, exactly once
\* after its start: no other component of the process ever opens it
C11_OnlySinkOpensStore ==
    /\ ~readerOpened
    /\ writerOpens = (IF sinkpc \in {"loop", "done"} THEN 1 ELSE 0)

\* C11 (amended): the store is written by the Sink only and opened for
\* writing by the Sink only, with exactly one open attempt, made at its
\* start before it receives anything; the dashboard of the same process
\* opens the file too, read-only, and never changes it
C11_OnlySinkWritesStore ==
    /\ [](writerOpens = (IF sinkpc \in {"loop", "done"} THEN 1 ELSE 0))
    /\ [](writerOpens = 0 => store = PriorStore)
    /\ [][StoreStepIsSinkAppend]_vars
    /\ [][readerOpened' # readerOpened => store' = store]_vars

\* C11 witness: the Sink has opened the store once and appended to it, and
\* the dashboard has opened it as well
C11_Witness ==
    /\ writerOpens = 1
    /\ readerOpened
    /\ Len(NewLines) >= 1

\* the workers that hold target i in their loop variable t
Holders(i) == { w \in Workers : wt[w] = i }

\* C12: a target is never in the work queue twice, a target a worker has
\* received is never in the queue again and is held by at most one worker;
\* the adapter is called at most once for it; a target whose fetch failed is
\* held by no worker any more and no later step adds a call for a target
\* that already has one
C12_AtMostOncePerTarget ==
    /\ [](\A i \in TargetIds :
            /\ Count(jobQueue, i) + Cardinality(Holders(i)) <= 1
            /\ i \in dequeued => Count(jobQueue, i) = 0
            /\ Cardinality(Holders(i)) = 1 => i \in dequeued
            /\ Len(fetchCalls[i]) <= 1
            /\ fetchCalls[i] # << >> => i \in dequeued
            /\ returned[i].status = "err" =>
                  Holders(i) = {} /\ Len(fetchCalls[i]) = 1)
    /\ [][\A i \in TargetIds :
            /\ fetchCalls[i] # << >> => fetchCalls'[i] = fetchCalls[i]
            /\ i \in dequeued =>
                  i \in dequeued' /\ Holders(i)' \subseteq Holders(i)]_vars

\* C12 witness: in a completed run of two targets both were received by
\* workers, the fetch of one failed and each has exactly one adapter call
C12_Witness ==
    /\ mainpc = "complete"
    /\ dequeued = {1, 2}
    /\ \E i \in TargetIds : returned[i].status = "err"
    /\ \A i \in TargetIds : Len(fetchCalls[i]) = 1

\* C13: the work queue never holds more than M targets and, while main is
\* in its enqueue loop, its next step (a send, or the close after the M-th
\* send) can be taken at once whatever the workers do; the queue is closed
\* in one step, taken after the M-th send, stays closed, and nothing is
\* added to it afterwards; a worker leaves its range loop only on the closed
\* and empty queue
C13_DistributorNeverBlocks ==
    /\ [](Len(jobQueue) <= Len(targets))
    /\ [](mainpc = "enqueue" => ENABLED (MainEnqueue \/ MainCloseJobs))
    /\ [](jobClosed => enqueued = Len(targets) /\ mainpc # "enqueue")
    /\ [][~jobClosed /\ jobClosed' =>
            mainpc = "enqueue" /\ mainpc' = "notify"
            /\ enqueued = Len(targets)]_vars
    /\ [][jobClosed =>
            /\ jobClosed'
            /\ enqueued' = enqueued
            /\ \/ jobQueue' = jobQueue
               \/ jobQueue # << >> /\ jobQueue' = Tail(jobQueue)]_vars
    /\ [][\A w \in Workers :
            (wpc[w] = "range" /\ wpc'[w] = "done") =>
                jobClosed /\ jobQueue = << >>]_vars

\* C13 witness: both of two targets were enqueued before any worker took
\* one, so the queue was full at capacity M, and the queue was then closed
C13_Witness ==
    /\ jobClosed
    /\ Len(targets) = 2
    /\ Len(jobQueue) = 2
    /\ dequeued = {}

\* the targets a worker received and dropped without calling the adapter
Dropped ==
    { i \in dequeued : fetchCalls[i] = << >> /\ Holders(i) = {} }

\* C14 (as claimed): every target that was dequeued is passed to the Fetch
\* Adapter: once all workers have stopped, no dequeued target is without an
\* adapter call
C14_EveryDequeuedIsFetched ==
    (\A w \in Workers : wpc[w] = "done") =>
        \A i \in dequeued : fetchCalls[i] # << >>

\* C14 (amended): a worker pulls the next target first and checks the
\* cancellation signal after the pull and before the fetch: the adapter is
\* called only for a dequeued target and only in a state without
\* cancellation; a worker that observes cancellation drops the target it
\* has just pulled and stops without removing any further target, so
\* targets are dropped only under cancellation and at most one per stopped
\* worker
C14_CheckAfterPull ==
    /\ [](\A i \in TargetIds : fetchCalls[i] # << >> => i \in dequeued)
    /\ [](Dropped # {} => ctxDone)
    /\ [](Cardinality(Dropped)
             <= Cardinality({ w \in Workers : wpc[w] = "done" }))
    /\ [][\A i \in TargetIds : fetchCalls'[i] # fetchCalls[i] =>
             ~ctxDone /\ \E w \in Holders(i) : wpc[w] = "select"]_vars
    /\ [][\A w \in Workers :
             /\ (wpc[w] = "select" /\ wpc'[w] = "done") =>
                   ctxDone /\ jobQueue' = jobQueue /\ wt[w] \in Dropped'
             /\ wpc[w] = "done" => wpc'[w] = "done"]_vars

\* C14 witness: all workers have stopped, one target was dequeued and
\* dropped under cancellation while the other was fetched
C14_Witness ==
    /\ \A w \in Workers : wpc[w] = "done"
    /\ Cardinality(Dropped) = 1
    /\ \E i \in dequeued : fetchCalls[i] # << >>

\* worker w is at a send of an included record on the full result queue
Suspended(w) ==
    /\ wpc[w] = "posts"
    /\ Passes(wt[w], PostIndex(w))
    /\ Len(resultQueue) = ResultCap

\* C15: the result queue never holds more than its capacity; a worker at a
\* send on the full queue does not move (it handles no further record and
\* makes no further fetch) and stays suspended until a step of the Sink
\* takes a record from the queue; and a worker suspended while the Sink is
\* in its receive loop is eventually no longer suspended
C15_Backpressure ==
    /\ [](Len(resultQueue) <= ResultCap)
    /\ [][\A w \in Workers : Suspended(w) =>
            /\ wpc'[w] = wpc[w] /\ wt'[w] = wt[w] /\ wposts'[w] = wposts[w]
            /\ Suspended(w)' \/ (sinkpc = "loop" /\ resultQueue' = Tail(resultQueue))]_vars
    /\ \A w \in 1..PublicWorkers :
          (Suspended(w) /\ sinkpc = "loop") ~> ~Suspended(w)

\* C15 witness: the Sink is in its receive loop, the result queue is full
\* and a worker is suspended at the send of a further included record
C15_Witness ==
    /\ sinkpc = "loop"
    /\ Len(resultQueue) = ResultCap
    /\ Len(pushLog) >= ResultCap
    /\ \E w \in Workers : Suspended(w) /\ ENABLED SinkWrite

\* C16: every reservation may act no earlier than it was made, and any two
\* reservations the limiter made one after the other may act at least one
\* interval apart (1 s for the authenticated, 2 s for the public adapter),
\* whichever workers made them and whenever; so of the calls arriving
\* together at most one is admitted without waiting, and no request is sent
\* before the time its reservation may act
C16_AdmissionsOneIntervalApart ==
    /\ \A k \in DOMAIN admitted : admitted[k].act >= admitted[k].at
    /\ \A k \in 1..(Len(admitted) - 1) :
          admitted[k + 1].act - admitted[k].act
              >= (IF mode = "public" THEN 2 ELSE 1)
    /\ \A k, l \in DOMAIN admitted :
          (k < l /\ admitted[k].at = admitted[l].at
                 /\ admitted[k].act = admitted[k].at) =>
              admitted[l].act > admitted[l].at
    /\ \A w \in Workers : limpc[w] = "request" => now >= limAt[w]

\* C16 witness: on the public adapter two workers called at the same time,
\* the first was admitted at once and the second exactly one interval
\* later, and a third call made after an idle time was admitted at once
C16_Witness ==
    /\ mode = "public"
    /\ Len(admitted) >= 3
    /\ admitted[1].at = admitted[2].at
    /\ admitted[1].by # admitted[2].by
    /\ admitted[1].act = admitted[1].at
    /\ admitted[2].act = admitted[1].act + 2
    /\ admitted[3].act = admitted[3].at
    /\ \E w \in Workers : limpc[w] = "request"

\* C17: the failure exit is taken only from the start of main and only
\* with an adapter that can fail to construct (never the synthetic one, always
\* an unknown mode); in a process that has exited this way no queue holds
\* anything or was closed, no worker, no Sink and no signal handler was
\* started, no target was dequeued or fetched, nothing was pushed, the Sink
\* never opened the store and the store is as it was; and nothing happens
\* after the exit
C17_ConstructionFailureFatalEarly ==
    /\ [](mainpc = "exited" =>
            /\ mode # "mock"
            /\ enqueued = 0 /\ jobQueue = << >> /\ ~jobClosed
            /\ resultQueue = << >> /\ ~resultClosed
            /\ \A w \in Workers : wpc[w] = "idle" /\ wt[w] = 0
            /\ sinkpc = "idle" /\ sigpc = "idle" /\ ~ctxDone
            /\ dequeued = {} /\ pushLog = << >>
            /\ \A i \in TargetIds : fetchCalls[i] = << >>
            /\ writerOpens = 0 /\ ~storeErr /\ store = PriorStore)
    /\ [](mode \notin {"api", "public", "mock"} => mainpc \in {"init", "exited"})
    /\ [][mainpc' = "exited" /\ mainpc # "exited" => mainpc = "init"]_vars
    /\ [][mainpc = "exited" => UNCHANGED vars]_vars

\* C17 witness: the public adapter failed to construct with targets loaded
\* and the process has exited
C17_Witness ==
    /\ mainpc = "exited"
    /\ mode = "public"
    /\ Len(targets) = 2

\* C18: once the Sink has failed to open the store it has exited, and from
\* then on it takes nothing from the result queue and writes nothing: the
\* store stays as the run found it and every record pushed in the run is
\* still in the queue, in push order, for ever unread; the failure changes
\* nothing in main, which neither exits nor panics, and the Sink's exit on
\* it is immediate (its first step)
C18_StoreOpenFailureLosesAll ==
    /\ [](storeErr =>
            /\ sinkpc = "done"
            /\ writerOpens = 1
            /\ store = PriorStore
            /\ Len(resultQueue) = Len(pushLog)
            /\ \A n \in DOMAIN pushLog : resultQueue[n] = pushLog[n].post
            /\ mainpc # "exited"
            /\ ~panicked)
    /\ [][storeErr' /\ ~storeErr =>
            /\ sinkpc = "start" /\ sinkpc' = "done"
            /\ UNCHANGED << mainVars, workerVars, resultQueue, store >>]_vars
    /\ [][storeErr => storeErr' /\ store' = store]_vars

\* C18 witness: the store could not be opened, records were pushed, and
\* main has reported completion with the records still in the queue
C18_Witness ==
    /\ storeErr
    /\ mainpc = "complete"
    /\ Len(pushLog) >= 2
    /\ Len(resultQueue) = Len(pushLog)

\* C19: with the empty target list (what LoadTargets returns when the file
\* cannot be opened) the work queue has capacity 0, main's first step after
\* the start is the close, no worker ever holds a target or calls the
\* adapter, nothing is pushed or written, and the run is never stuck before
\* main reports completion (or has exited on an adapter that failed to
\* construct); with the empty keyword list no record gets a matched keyword
\* and a decided record was pushed exactly when its score reaches the
\* target's minimum score
C19_LoadFailureNotFatal ==
    /\ Len(targets) = 0 =>
          /\ JobQueueCap = 0 /\ jobQueue = << >> /\ enqueued = 0
          /\ mainpc = "enqueue" => ENABLED MainCloseJobs /\ ~ENABLED MainEnqueue
          /\ \A w \in Workers : wpc[w] \in {"idle", "range", "done"} /\ wt[w] = 0
          /\ dequeued = {} /\ pushLog = << >> /\ resultQueue = << >>
          /\ store = PriorStore
          /\ mainpc \in {"complete", "exited"} \/ ENABLED Progress
          /\ mainpc = "exited" => mode # "mock"
    /\ keywords = << >> =>
          /\ \A n \in DOMAIN pushLog : pushLog[n].post.KeywordsHit = << >>
          /\ \A i \in TargetIds : \A j \in 1..Handled(i) :
                Pushed(i, j) <=>
                    returned[i].posts[j].Score >= targets[i].MinScore

\* C19 witness: a run with no targets and no keywords has completed: all
\* workers left through the closed empty queue and the Sink opened the
\* store and wrote nothing
C19_Witness ==
    /\ Len(targets) = 0
    /\ keywords = << >>
    /\ mainpc = "complete"
    /\ \A w \in Workers : wpc[w] = "done"
    /\ writerOpens = 1 /\ ~storeErr
    /\ store = PriorStore

\* the ids of the records of a sequence of posts, and of lines, in order
PostIds(posts) == [n \in DOMAIN posts |-> posts[n].ID]
LineIds(lines) == [n \in DOMAIN lines |-> lines[n].id]

\* the records pushed so far, in push order
PushedPosts == [n \in DOMAIN pushLog |-> pushLog[n].post]

\* C20: the lines appended in the run, followed by the records waiting in
\* the result queue, are the records in the order the workers pushed them:
\* the Sink takes the oldest record of the queue and appends its line at
\* the end of the store, so line n is push n, whatever the position of its
\* target in the target list
C20_StoreOrderIsPushOrder ==
    /\ [](LineIds(NewLines) \o PostIds(resultQueue) = PostIds(PushedPosts))
    /\ [](\A n \in 1..Len(NewLines) :
            /\ NewLines[n].score = pushLog[n].post.Score
            /\ NewLines[n].title = pushLog[n].post.Title)
    /\ [][store' # store =>
            /\ resultQueue # << >>
            /\ store'[Len(store')].id = Head(resultQueue).ID
            /\ resultQueue' = Tail(resultQueue)
            /\ SubSeq(store', 1, Len(store)) = store]_vars
    /\ [][pushLog' # pushLog =>
            /\ resultQueue' = Append(resultQueue, pushLog'[Len(pushLog')].post)
            /\ SubSeq(pushLog', 1, Len(pushLog)) = pushLog]_vars

\* C20 witness: the store holds a line of the second target before a line
\* of the first target, with a different id, as they were pushed
C20_Witness ==
    /\ Len(NewLines) >= 2
    /\ pushLog[1].t = 2
    /\ pushLog[2].t = 1
    /\ NewLines[1].id # NewLines[2].id

\* C21: the content the store had before the run is a prefix of the store
\* at every moment of the run, and every step leaves the lines that are
\* there in place and unchanged, adding at most one whole line at the end
C21_AppendOnly ==
    /\ [](/\ Len(store) >= Len(PriorStore)
          /\ SubSeq(store, 1, Len(PriorStore)) = PriorStore)
    /\ [][/\ Len(store') \in {Len(store), Len(store) + 1}
          /\ \A n \in 1..Len(store) : store'[n] = store[n]]_vars

\* C21 witness: a completed run has appended two lines behind the line an
\* earlier run left
C21_Witness ==
    /\ mainpc = "complete"
    /\ Len(PriorStore) >= 1
    /\ Len(store) = Len(PriorStore) + 2
    /\ store[1] = PriorStore[1]

RECURSIVE ReadErrors(_, _)
\* the error r.Read() gives for each row of a file, fpr being FieldsPerRecord
ReadErrors(rows, fpr) ==
    IF rows = << >> THEN << >>
    ELSE << ReadRecord(Head(rows), fpr).err >>
         \o ReadErrors(Tail(rows), ReadRecord(Head(rows), fpr).fields)

\* a row that is a valid target row: read without error, the trimmed first
\* field matches the pattern and the second field parses as an integer
ValidTargetRow(row, err) ==
    /\ err = "nil"
    /\ Len(row.fields) >= 2
    /\ SubNameMatches(TrimSpace(row.fields[1]))
    /\ Atoi(TrimSpace(row.fields[2])).err = "nil"

RECURSIVE TargetsFrom(_, _, _)
\* the Targets of the valid target rows from row i on, the header left out
TargetsFrom(rows, errs, i) ==
    IF i > Len(rows) THEN << >>
    ELSE (IF i >= 2 /\ ValidTargetRow(rows[i], errs[i])
          THEN << Target(TrimSpace(rows[i].fields[1]),
                         Atoi(TrimSpace(rows[i].fields[2])).val) >>
          ELSE << >>)
         \o TargetsFrom(rows, errs, i + 1)

RECURSIVE KeywordsFrom(_, _, _)
\* the keywords of the rows read without error from row i on, the header
\* left out
KeywordsFrom(rows, errs, i) ==
    IF i > Len(rows) THEN << >>
    ELSE (IF i >= 2 /\ errs[i] = "nil"
          THEN << ToLower(TrimSpace(rows[i].fields[1])) >>
          ELSE << >>)
         \o KeywordsFrom(rows, errs, i + 1)

\* C22: LoadTargets never crashes, and what it returns is, in file order,
\* exactly the Targets of the data rows with a matching identifier and a
\* score that parses as an integer
C22_TargetLoadingFailSoft ==
    startFn = "LoadTargets" =>
        /\ startpc # "panic"
        /\ startpc = "returned" =>
               loaded = TargetsFrom(csvRows, ReadErrors(csvRows, 0), 1)

\* C23: LoadKeywords returns, in file order, the trimmed and lower-cased
\* first field of every data row that is read without error, and nothing
\* for a row that fails to parse
C23_KeywordLoading ==
    (startFn = "LoadKeywords" /\ startpc = "returned") =>
        loaded = KeywordsFrom(csvRows, ReadErrors(csvRows, 0), 1)

\* C24 as stated: NewCollector returns the authenticated adapter for "api",
\* the public adapter for "public" with a user agent, the synthetic adapter
\* for "mock", and an error with no adapter in every other case
C24_AdapterSelection ==
    (startFn = "NewCollector" /\ startpc = "returned") =>
        CASE mode = "api" ->
                collector = [adapter |-> "APIClient", err |-> "nil"]
          [] mode = "public" /\ userAgent # "" ->
                collector = [adapter |-> "PublicClient", err |-> "nil"]
          [] mode = "mock" ->
                collector = [adapter |-> "MockClient", err |-> "nil"]
          [] OTHER -> collector.adapter = "nil" /\ collector.err # "nil"

\* C24: as above, except that for "api" NewCollector returns either the
\* authenticated adapter or, with no adapter, the error of the client
\* library's constructor; an adapter and an error never come together
C24_AdapterSelectionOrClientError ==
    (startFn = "NewCollector" /\ startpc = "returned") =>
        /\ (collector.adapter = "nil") # (collector.err = "nil")
        /\ CASE mode = "api" ->
                   collector \in
                       { [adapter |-> "APIClient", err |-> "nil"],
                         [adapter |-> "nil", err |-> "reddit.NewClient"] }
             [] mode = "public" /\ userAgent # "" ->
                   collector = [adapter |-> "PublicClient", err |-> "nil"]
             [] mode = "mock" ->
                   collector = [adapter |-> "MockClient", err |-> "nil"]
             [] OTHER -> collector.adapter = "nil"

\* C24 witness: the factory has returned for "api" with the error of the
\* client library and no adapter
C24_Witness ==
    /\ startFn = "NewCollector"
    /\ startpc = "returned"
    /\ mode = "api"
    /\ collector = [adapter |-> "nil", err |-> "reddit.NewClient"]

\* C25: a worker becomes done only from the range statement with the queue
\* closed and empty, or from the select with cancellation asserted; a done
\* worker stays done and holds nothing; and every receive from jobQueue,
\* every FetchNewPosts call and every send on resultQueue is the step of a
\* worker that is not done
C25_WorkerStateMachine ==
    [][/\ \A w \in Workers :
            /\ wpc[w] = "done" =>
                   /\ wpc'[w] = "done"
                   /\ wt'[w] = wt[w]
                   /\ wposts'[w] = wposts[w]
            /\ (wpc[w] # "done" /\ wpc'[w] = "done") =>
                   \/ wpc[w] = "range" /\ jobClosed /\ jobQueue = << >>
                   \/ wpc[w] = "select" /\ ctxDone
       /\ dequeued' # dequeued =>
              \E w \in Workers : wpc[w] = "range" /\ wpc'[w] = "select"
       /\ jobQueue' # jobQueue /\ Len(jobQueue') < Len(jobQueue) =>
              \E w \in Workers : wpc[w] = "range" /\ wpc'[w] = "select"
       /\ fetchCalls' # fetchCalls =>
              \E w \in Workers : wpc[w] = "select" /\ wpc'[w] = "fetch"
       /\ pushLog' # pushLog =>
              \E w \in Workers : wpc[w] = "posts" /\ wposts'[w] # wposts[w]
      ]_vars

\* C25 witness: every worker is done, records were pushed, and exactly one
\* target was received and never fetched: its worker left on cancellation,
\* and with more workers than that, another left on the closed empty queue
C25_Witness ==
    /\ \A w \in Workers : wpc[w] = "done"
    /\ Cardinality({i \in dequeued : fetchCalls[i] = << >>}) = 1
    /\ Cardinality(Workers) > 1
    /\ pushLog # << >>

\* C26: between the cancellation check and the end of its target a worker
\* never leaves the loop; with cancellation asserted a worker that has a
\* post to decide on can still send it (unless the queue is full) or drop
\* it, a call under way can still return posts, and every post decided on
\* was sent exactly when it passes the inclusion predicate
C26_CancellationOnlyAtLoopTop ==
    /\ [](ctxDone =>
            /\ \A i \in TargetIds : \A j \in 1..Handled(i) :
                   Pushed(i, j) <=> Passes(i, j)
            /\ \A w \in Workers :
                   /\ (wpc[w] = "posts" /\ ~panicked) =>
                          \/ ENABLED WorkerPush(w)
                          \/ ENABLED WorkerDiscard(w)
                          \/ Len(resultQueue) = ResultCap
                   /\ (wpc[w] = "fetch" /\ ~panicked) =>
                          ENABLED FetchReturnsPosts(w))
    /\ [][\A w \in Workers :
            wpc[w] \in {"fetch", "posts"} => wpc'[w] \in {"fetch", "posts", "range"}
         ]_vars

\* C26 witness: a completed run in which a record was sent after cancel()
\* was called, and that record is in the store
C26_Witness ==
    /\ mainpc = "complete"
    /\ ctxDone
    /\ Len(pushLog) > pushedAtCancel
    /\ Len(NewLines) > pushedAtCancel

\* C27: with cancellation asserted, a call that has not got past
\* limiter.Wait - it is at the entry check or blocked on the timer - never
\* gets to the request; it can return, and the only way it returns is the
\* error return: no posts, the worker back at the range statement without
\* its target.  A target whose call returned an error was called once and
\* none of its records was ever sent
C27_CancelledWaitIsFetchFailure ==
    /\ [](/\ \A w \in Workers :
                (wpc[w] = "fetch" /\ ctxDone /\ ~panicked
                     /\ limpc[w] \in {"idle", "wait"}) =>
                    ENABLED (WaitRejected(w) \/ WaitCancelled(w))
          /\ \A i \in TargetIds :
                returned[i].status = "err" =>
                    /\ \A n \in DOMAIN pushLog : pushLog[n].t # i
                    /\ Len(fetchCalls[i]) = 1
                    /\ Holders(i) = {})
    /\ [][\A w \in Workers :
            (wpc[w] = "fetch" /\ ctxDone /\ limpc[w] \in {"idle", "wait"}) =>
                /\ limpc'[w] = limpc[w]
                /\ wposts'[w] = wposts[w]
                /\ wpc'[w] # "fetch" =>
                       /\ wpc'[w] = "range"
                       /\ wt'[w] = 0
                       /\ returned'[wt[w]] = [status |-> "err", posts |-> << >>]
                       /\ pushLog' = pushLog
         ]_vars

\* C27 witness: a completed run in which a call blocked in limiter.Wait
\* was ended by cancellation: its worker is done, no request was sent, the
\* target has the error outcome after one call
C27_Witness ==
    /\ mainpc = "complete"
    /\ ctxDone
    /\ \E w \in Workers : limpc[w] = "wait" /\ wpc[w] = "done"
    /\ \E i \in TargetIds :
          /\ returned[i].status = "err"
          /\ fetchCalls[i] = << BatchLimit >>

\* the targets whose FetchNewPosts call was made and has not returned
InFlight == { i \in TargetIds : fetchCalls[i] # << >> /\ returned[i].status = "none" }

\* the targets received from jobQueue that are not finished: no outcome
\* yet and not dropped on cancellation, or posts still to decide on
InProgress ==
    { i \in dequeued :
        \/ returned[i].status = "none" /\ i \notin Dropped
        \/ returned[i].status = "ok" /\ Handled(i) < Len(returned[i].posts) }

\* C28: the workers are 4, or 2 with the public adapter, in every state;
\* the calls in flight and the targets in progress are never more than the
\* workers; every target in progress is held by exactly one worker
C28_BoundedConcurrency ==
    /\ Workers = 1..(IF mode = "public" THEN PublicWorkers ELSE DefaultWorkers)
    /\ DOMAIN wt = Workers
    /\ Cardinality(InFlight) <= Cardinality(Workers)
    /\ Cardinality(InProgress) <= Cardinality(Workers)
    /\ InFlight \subseteq InProgress
    /\ \A i \in InProgress : Cardinality(Holders(i)) = 1
    /\ \A i \in TargetIds : Cardinality(Holders(i)) <= 1

\* C28 witness: with the public adapter both workers have a call in flight
\* and a third target waits in the queue
C28_Witness ==
    /\ mode = "public"
    /\ Cardinality(InFlight) = PublicWorkers
    /\ jobQueue # << >>
    /\ \A w \in Workers : wpc[w] = "fetch"

\* a step of main
MainStep ==
    \/ MainCollectorFails \/ MainStart \/ MainEnqueue \/ MainCloseJobs
    \/ MainNotify \/ MainCloseResults \/ MainComplete

\* C29: once main has reported completion it has no step left and stays
\* where it is, while the dashboard can still be served; once the handler
\* has taken the first signal, cancellation stays asserted, nobody receives
\* from sigChan again, and a signal that arrives changes nothing but the
\* buffer of sigChan
C29_MainBlocksForever ==
    /\ [](mainpc = "complete" =>
            /\ ~ENABLED MainStep
            /\ ~panicked => ENABLED LoadData)
    /\ [][/\ mainpc = "complete" => mainpc' = "complete"
          /\ sigpc = "done" =>
                /\ sigpc' = "done"
                /\ ctxDone /\ ctxDone'
                /\ sigChan' >= sigChan
                /\ sigChan' # sigChan =>
                       UNCHANGED << mainVars, inputVars, jobVars, resultQueue,
                                    resultClosed, workerVars, sinkVars,
                                    panicked, histVars, openVars >>
         ]_vars

\* C29 witness: the run has completed, the first signal was handled, a
\* later signal lies in the buffer of sigChan, and the dashboard has read
\* the store
C29_Witness ==
    /\ mainpc = "complete"
    /\ sigpc = "done"
    /\ sigChan = SigChanCap
    /\ readerOpened

\* the records returned in the run that carry the id and pass the
\* inclusion predicate, each named by its target and its place in the batch
PassingWithId(id) ==
    { ij \in TargetIds \X (1..MaxPosts) :
        /\ returned[ij[1]].status = "ok"
        /\ ij[2] <= Len(returned[ij[1]].posts)
        /\ returned[ij[1]].posts[ij[2]].ID = id
        /\ Passes(ij[1], ij[2]) }

\* the lines appended in the run that carry the id
LinesWithId(id) == { n \in DOMAIN NewLines : NewLines[n].id = id }

\* C30: in a completed run every returned record that passes the inclusion
\* predicate has a line of its own in the store, whatever ids the store and
\* the other records carry: for every id, the run appended as many lines
\* as records with that id passed
C30_NoDeduplication ==
    mainpc = "complete" =>
        \A i \in TargetIds : \A j \in 1..Len(returned[i].posts) :
            Passes(i, j) =>
                Cardinality(LinesWithId(returned[i].posts[j].ID))
                    = Cardinality(PassingWithId(returned[i].posts[j].ID))

----------------------------------------------------------------------------
(* C31 *)

\* a request's loadData comes to the end of its scan
ScanEnds == loadpc = "scan" /\ loadpc' = "loaded"

\* C31: when the file holds the lines the Sink has appended and nothing
\* else, loadData, read to its end, returns exactly the Records appended,
\* with equal field values (an empty matched-keywords list read back as
\* empty), in the order of the lines, one Record for every line
C31_StoreRoundTrip ==
    [][ScanEnds /\ Len(store) = Len(written)
          => loadedPosts' = written /\ Len(loadedPosts') = Len(store)]_vars

----------------------------------------------------------------------------
(* C32 *)

\* C32: a worker suspended at its send on the full result queue is still
\* suspended after cancellation is asserted; with cancellation asserted it
\* leaves the send only by a step in which the Sink takes a record from the
\* queue; and once the Sink has exited (the store could not be opened) it
\* is suspended in every later state
C32_FullQueueSendIgnoresCancel ==
    [][\A w \in Workers : Suspended(w) =>
          /\ ~ctxDone /\ ctxDone' => Suspended(w)'
          /\ ctxDone =>
                \/ Suspended(w)'
                \/ /\ sinkpc = "loop"
                   /\ resultQueue' = Tail(resultQueue)
                   /\ wpc'[w] = wpc[w] /\ wposts'[w] = wposts[w]
          /\ sinkpc = "done" => Suspended(w)' /\ sinkpc' = "done"]_vars

\* C32 witness: cancellation is asserted, the Sink has exited on the failed
\* open, and a worker is suspended at its send on the full queue
C32_Witness ==
    /\ ctxDone
    /\ sinkpc = "done"
    /\ storeErr
    /\ \E w \in Workers : Suspended(w)

----------------------------------------------------------------------------
(* C33 *)

\* the lines one worker appends for a batch, handling its posts in order
\* from the j-th on: tag, test, encode
RECURSIVE BatchLines(_, _, _)
BatchLines(t, batch, j) ==
    IF j > Len(batch) THEN << >>
    ELSE LET p == Tag(batch[j], keywords)
         IN  (IF Include(p, t) THEN << Encode(p) >> ELSE << >>)
                 \o BatchLines(t, batch, j + 1)

\* the lines a single worker appends that takes the targets in list order
\* from the i-th on, one after the other
RECURSIVE SequentialLines(_)
SequentialLines(i) ==
    IF i > Len(targets) THEN << >>
    ELSE (IF FixedResult(targets[i].Subreddit).status = "ok"
          THEN BatchLines(targets[i], FixedResult(targets[i].Subreddit).posts, 1)
          ELSE << >>)
             \o SequentialLines(i + 1)

\* the same lines, each as often in one as in the other
SameLines(s, t) ==
    /\ Len(s) = Len(t)
    /\ \A n \in DOMAIN s : Count(s, s[n]) = Count(t, s[n])

\* C33: with an adapter that answers by the source alone, every run that
\* completes without cancellation and with the store opened has appended
\* the same lines, each as often, as one worker taking the targets in list
\* order would have, whatever the interleaving and with two workers as with
\* four; only the order of the lines can differ
C33_InterleavingIndependence ==
    RunCompleted /\ ~ctxDone /\ ~storeErr
        => SameLines(NewLines, SequentialLines(1))

\* C33 witness: such a run has completed, with lines of two targets, in
\* another order than the sequential one
C33_Witness ==
    /\ RunCompleted /\ ~ctxDone /\ ~storeErr
    /\ Len(NewLines) > ResultCap
    /\ NewLines # SequentialLines(1)

----------------------------------------------------------------------------
(* C34 *)

\* the target whose batch the n-th appended line comes from, and the place
\* of its record in the batch the adapter returned
LineTarget(n) == pushLog[n].t
LinePlace(n) == pushLog[n].j

\* C34: every line appended in the run is the record, tagged, that the
\* adapter returned at some place of the batch of some target, and of two
\* lines of the same target the earlier in the store has the earlier place
\* in the batch, whatever lines of other targets stand between them
C34_PerTargetOrderKept ==
    /\ Len(NewLines) <= Len(pushLog)
    /\ \A n \in DOMAIN NewLines :
          /\ LineTarget(n) \in TargetIds
          /\ LinePlace(n) \in DOMAIN returned[LineTarget(n)].posts
          /\ LineMatches(NewLines[n], TaggedRecord(LineTarget(n), LinePlace(n)))
    /\ \A n, m \in DOMAIN NewLines :
          n < m /\ LineTarget(n) = LineTarget(m) => LinePlace(n) < LinePlace(m)

\* C34 witness: the store holds two lines of one target with a line of
\* another target between them
C34_Witness ==
    \E n, k, m \in DOMAIN NewLines :
        /\ n < k /\ k < m
        /\ LineTarget(n) = LineTarget(m)
        /\ LineTarget(k) # LineTarget(n)

----------------------------------------------------------------------------
(* C35 *)

\* the targets received from the work queue after cancel() was called
DequeuedAfterCancel == IF ctxDone THEN dequeued \ dequeuedAtCancel ELSE {}

\* the workers that can have received one of them: those at the check with
\* such a target, and those that have returned
StoppedByCancel ==
    { w \in Workers :
        \/ wpc[w] = "done"
        \/ wpc[w] = "select" /\ wt[w] \in DequeuedAfterCancel }

\* C35: no target received after cancellation is ever fetched, and there
\* are no more of them than workers that received one and stop on it; a
\* worker at its check under cancellation does nothing but return, taking
\* nothing more from the work queue; so at most N targets are dequeued
\* without being fetched; and once all workers have returned the work queue
\* keeps what it holds
C35_AtMostOneDropPerWorker ==
    /\ [](\A i \in DequeuedAfterCancel : fetchCalls[i] = << >>)
    /\ [](Cardinality(DequeuedAfterCancel) <= Cardinality(StoppedByCancel))
    /\ [](Cardinality(Dropped) <= Cardinality(Workers))
    /\ [][\A w \in Workers : ctxDone /\ wpc[w] = "select" =>
            \/ wpc'[w] = "select" /\ wt'[w] = wt[w]
            \/ wpc'[w] = "done" /\ jobQueue' = jobQueue
                  /\ fetchCalls' = fetchCalls]_vars
    /\ [][(\A w \in Workers : wpc[w] = "done") =>
            jobQueue' = jobQueue /\ dequeued' = dequeued]_vars

\* C35 witness: every worker has returned on a target it received after
\* cancellation and did not fetch, and a target is left in the work queue
C35_Witness ==
    /\ \A w \in Workers : wpc[w] = "done"
    /\ Cardinality(DequeuedAfterCancel) = Cardinality(Workers)
    /\ Dropped = DequeuedAfterCancel
    /\ jobQueue # << >>

----------------------------------------------------------------------------
(* C36 *)

\* C36: the records of a batch a worker has not handled yet, and the
\* records of the batches as the adapter returned them, have an empty
\* matched-keywords list at every moment; a worker's step on a record
\* takes that record off its own batch and leaves the rest of its batch,
\* the batches of the other workers, the adapter's batches and the records
\* already sent as they are; and the list of every record sent holds the
\* keywords its own title contains and nothing of any other record
C36_TaggingTouchesOneRecord ==
    /\ [](\A w \in Workers : \A n \in DOMAIN wposts[w] :
             wposts[w][n].KeywordsHit = << >>)
    /\ [](\A i \in TargetIds : \A n \in DOMAIN returned[i].posts :
             returned[i].posts[n].KeywordsHit = << >>)
    /\ [](\A n \in DOMAIN pushLog :
             /\ pushLog[n].post.KeywordsHit = ExpectedHits(pushLog[n].post.Title)
             /\ pushLog[n].post =
                   [returned[pushLog[n].t].posts[pushLog[n].j] EXCEPT
                       !.KeywordsHit = pushLog[n].post.KeywordsHit])
    /\ [][\A w \in Workers : wpc[w] = "posts" /\ wposts'[w] # wposts[w] =>
             /\ wposts'[w] = Tail(wposts[w])
             /\ \A v \in Workers \ {w} :
                   wposts'[v] = wposts[v] \/ wpc[v] # "posts"
             /\ returned' = returned
             /\ SubSeq(pushLog', 1, Len(pushLog)) = pushLog
             /\ store' = store]_vars

\* C36 witness: a record with matched keywords was sent, and a worker is
\* at a later record of the same batch, which it tags with nothing, while
\* a record of another target's batch was sent without a keyword
C36_Witness ==
    /\ \E w \in Workers :
          /\ wpc[w] = "posts"
          /\ Tagged(w).KeywordsHit = << >>
          /\ \E n \in DOMAIN pushLog :
                pushLog[n].t = wt[w] /\ pushLog[n].post.KeywordsHit # << >>
    /\ \E n, m \in DOMAIN pushLog :
          /\ n < m
          /\ pushLog[n].t # pushLog[m].t
          /\ pushLog[n].post.KeywordsHit # << >>
          /\ pushLog[m].post.KeywordsHit = << >>

----------------------------------------------------------------------------
(* C37 *)

\* the configured list holds the empty keyword
HasEmptyKeyword == \E n \in DOMAIN keywords : keywords[n] = << >>

\* C37: when the keyword list holds the empty keyword, every record of a
\* fetched batch that a worker has decided on was sent, none was dropped,
\* whatever its score and the minimum score of its target, and every record
\* sent has the empty keyword in its matched-keywords list
C37_EmptyKeywordIncludesAll ==
    HasEmptyKeyword =>
        /\ \A i \in TargetIds : \A j \in 1..Handled(i) : Pushed(i, j)
        /\ \A n \in DOMAIN pushLog :
              \E h \in DOMAIN pushLog[n].post.KeywordsHit :
                  pushLog[n].post.KeywordsHit[h] = << >>

\* C37 witness: with the empty keyword alone in the list, a record below
\* the minimum score of its target was sent and its line appended
C37_Witness ==
    /\ keywords = << << >> >>
    /\ \E n \in DOMAIN pushLog :
          /\ pushLog[n].post.Score < targets[pushLog[n].t].MinScore
          /\ pushLog[n].post.KeywordsHit = << << >> >>
          /\ \E l \in DOMAIN NewLines : NewLines[l].id = pushLog[n].post.ID

----------------------------------------------------------------------------
(* C38 *)

\* the posts of the lines of a file from the n-th on that json.Unmarshal
\* takes, in the order of the lines
RECURSIVE ParseableFrom(_, _)
ParseableFrom(file, n) ==
    IF n > Len(file) THEN << >>
    ELSE (IF file[n] # EmptyLine /\ Unmarshal(file[n]).err = "nil"
          THEN << Unmarshal(file[n]).post >> ELSE << >>)
             \o ParseableFrom(file, n + 1)

\* the scores of a list fall or stay from each element to the next
ScoreDescending(s) ==
    \A a, b \in DOMAIN s : a < b => s[a].Score >= s[b].Score

\* C38: loadData returns the empty list when the file does not exist; it
\* passes over empty lines and lines that do not parse, without failing,
\* and returns the posts of all the parseable lines of the file; and the
\* page lists the loaded posts by score, highest first
C38_LoaderKeepsParseable ==
    /\ [](loadpc = "loaded" /\ ~storeExists => loadedPosts = << >>)
    /\ [][ScanEnds => loadedPosts' = ParseableFrom(store, 1)]_vars
    /\ [][loadpc = "loaded" /\ loadpc' = "served" =>
            /\ ScoreDescending(loadedPosts')
            /\ SameLines(loadedPosts', loadedPosts)]_vars

====
